---- MODULE Spec2Model ----
(***************************************************************************)
(* Model of kiibohd/mcu-interface: the DFU resolver (Dfu.__init__), the    *)
(* DFU -> SAM-BA mode switch (Dfu.samba_bootloader), the bossac wrapper    *)
(* (Bossa.cmd) and the update orchestrator (examples/full_reflash.py).     *)
(***************************************************************************)
EXTENDS Integers, Sequences, FiniteSets, TLC

VARIABLES
    pc,            \* position of the orchestrator script (full_reflash.py)
    reason,        \* error kind that ended the run ("" while none)
    dev,           \* the physical device on the watched USB port
    dev0,          \* the device as the outer loop first saw it (history)
    vid, pid,      \* the script's locals vid / pid
    intf,          \* the script's local intf: Dfu.interfaces (a sequence)
    targets,       \* bootloader_rev, mcu_rev, ble_rev read from buildvars.h
    listening,     \* a pyudev monitor of the script is started
    queue,         \* events received by the monitor and not yet polled
    pollElapsed,   \* seconds spent in the current monitor.poll(3)
    waitElapsed,   \* seconds spent in the current wait loop
    log,           \* history: tool invocations, checks and observed rebinds
    rFound,        \* resolver run: DfuInfo records parsed from dfu-util --list
    rSerial,       \* resolver run: the serial filter
    rBleSerial,    \* resolver run: the ble_serial filter
    rResult,       \* resolver run: outcome of Dfu.__init__
    bOpts,         \* Bossa.cmd run: the keyword arguments
    bResult,       \* Bossa.cmd run: outcome and the invocations issued
    sEnum,         \* Bossa.from_udev run: candidates in enumeration order
    sPathArg,      \* Bossa.from_udev run: the path argument
    sResult,       \* Bossa.from_udev run: outcome
    psRaw,         \* parse_serial run: the raw serial, a string of characters
    psResult,      \* parse_serial run: outcome
    piLines,       \* BossaInfo run: the lines of the bossac --info output
    piResult,      \* BossaInfo run: the record after BossaInfo(output)
    piAgain,       \* BossaInfo run: the record after a second set(output)
    swIn,          \* samba_bootloader run: interfaces[0] and the host
    swResult,      \* samba_bootloader run: outcome, blob and invocations
    lWorld,        \* lookup run: the DFU devices attached
    lArgs,         \* lookup run: the filter arguments
    lResult        \* lookup run: which lookup ran and its outcome

ovars == <<pc, reason, dev, dev0, vid, pid, intf, targets, listening, queue,
           pollElapsed, waitElapsed, log>>
rvars == <<rFound, rSerial, rBleSerial, rResult>>
bvars == <<bOpts, bResult>>
svars == <<sEnum, sPathArg, sResult>>
psvars == <<psRaw, psResult>>
pivars == <<piLines, piResult, piAgain>>
swvars == <<swIn, swResult>>
lvars == <<lWorld, lArgs, lResult>>
fvars == <<bOpts, bResult, sEnum, sPathArg, sResult, psRaw, psResult,
           piLines, piResult, piAgain, swIn, swResult, lWorld, lArgs, lResult>>
vars == <<pc, reason, dev, dev0, vid, pid, intf, targets, listening, queue,
          pollElapsed, waitElapsed, log, rFound, rSerial, rBleSerial, rResult,
          bOpts, bResult, sEnum, sPathArg, sResult, psRaw, psResult,
          piLines, piResult, piAgain, swIn, swResult, lWorld, lArgs, lResult>>

----------------------------------------------------------------------------
(* Bounds of the model *)

MaxQueue == 2
MaxWait == 4
MaxCand == 3

(* Program constants *)

\* Python's None for numeric fields (outside the uint32 domain)
None == -1
\* Python's None for string fields
NoneStr == "<None>"
\* monitor.poll(3)
PollTimeout == 3
\* if revision < 1233
MinRevision == 1233
\* if vid != 0x308f
InputClubVid == 12431
\* bossa_regions = [0, 1, 2]
bossa_regions == <<0, 1, 2>>
\* SAM-BA identity, pids = [(0x03eb, 0x6124)]
SambaIds == [vid |-> 1003, pid |-> 24868]

\* The watched USB port (device.parent.sys_name) and another port
Path == "1-2"
OtherPath == "1-3"

\* 'sam4s' as a sequence of characters
Sam4s == <<"s", "a", "m", "4", "s">>
Chips == { <<"s", "a", "m", "4", "s", "4", "b">>,
           <<"m", "k", "2", "0", "d", "x">> }

\* Python truthiness of an optional number: None and 0 are falsy
Truthy(x) == x # None /\ x # 0

\* Python truthiness of an optional string: None and '' are falsy
TruthyStr(s) == s # NoneStr /\ s # ""

\* needle in hay, for sequences of characters
IsSubstring(needle, hay) ==
    \E i \in 0..(Len(hay) - Len(needle)) :
        SubSeq(hay, i + 1, i + Len(needle)) = needle

----------------------------------------------------------------------------
(* Dfu.__init__: the resolver *)

\* dfu-util --list [--path path] [--device vid:pid]: the tool's own filtering.
\* The --device filter is passed only when both vid and pid are given.
DfuList(world, path, v, p) ==
    SelectSeq(world, LAMBDA i :
        /\ (TruthyStr(path) => i.path = path)
        /\ ((Truthy(v) /\ Truthy(p)) => (i.vid = v /\ i.pid = p)))

\* The serial filters of the loop body: TRUE iff the record is skipped
SerialSkips(i, serial, ble_serial) ==
    \/ (TruthyStr(serial) /\ serial # i.serial.serial)
    \/ (TruthyStr(ble_serial) /\ ble_serial # i.serial.ble_serial)

\* "Ignore duplicate USB device paths": the record belongs to the device found
SamePathAlwaysTrue(a, b) == TRUE

SamePath(a, b) == a = b

\* The loop over found_interfaces, from index k, with the loop's locals
RECURSIVE FilterLoop(_, _, _, _, _, _)
FilterLoop(found, k, serial, ble_serial, path_found, filtered) ==
    IF k > Len(found)
    THEN [status |-> "ok", interfaces |-> filtered]
    ELSE LET i == found[k] IN
         IF SerialSkips(i, serial, ble_serial)
         THEN FilterLoop(found, k + 1, serial, ble_serial, path_found, filtered)
         ELSE IF ~TruthyStr(path_found)
         THEN FilterLoop(found, k + 1, serial, ble_serial, i.path,
                         Append(filtered, i))
         ELSE IF SamePath(i.path, path_found)
         THEN FilterLoop(found, k + 1, serial, ble_serial, path_found,
                         Append(filtered, i))
         ELSE [status |-> "AmbiguousDevice", interfaces |-> <<>>]

\* Dfu.__init__ after the dfu-util --list call
DfuInit(found, serial, ble_serial) ==
    IF Len(found) = 0
    THEN [status |-> "NoDeviceFound", interfaces |-> <<>>]
    ELSE FilterLoop(found, 1, serial, ble_serial, NoneStr, <<>>)

----------------------------------------------------------------------------
(* The device and what dfu-util / udev report about it *)

\* DfuInfo records of one enumerated DFU device: one per alt-setting
InterfacesOf(d) ==
    LET rec(a) == [vid |-> d.vid, pid |-> d.pid, ver |-> d.ver,
                   path |-> Path, alt |-> a,
                   serial |-> [serial |-> "S1", chip |-> d.chip,
                               mcu_revision |-> d.mcu_revision,
                               ble_serial |->
                                   IF d.ble_revision = None THEN NoneStr ELSE "B1",
                               ble_revision |-> d.ble_revision]]
    IN (IF d.hasAlt0 THEN <<rec(0)>> ELSE <<>>)
       \o (IF d.hasAlt1 THEN <<rec(1)>> ELSE <<>>)

\* The 'Found DFU:' lines of the bus: only a device in DFU mode is listed
World(d) == IF d.mode = "dfu" THEN InterfacesOf(d) ELSE <<>>

\* History entries
Entry(kind, what, alt, v, p, args) ==
    [kind |-> kind, what |-> what, alt |-> alt, vid |-> v, pid |-> p,
     args |-> args]

Tok(o, r) == [o |-> o, r |-> r]

\* for dintf in intf.dfu_interfaces(): if dintf.alt == a: ... break
FirstAlt(interfaces, a) ==
    LET idx == {k \in 1..Len(interfaces) : interfaces[k].alt = a}
    IN IF idx = {} THEN 0
       ELSE CHOOSE k \in idx : \A j \in idx : k <= j

\* The revision comparisons of the script: flash iff the values differ
NeedsFlashOrdered(onDevice, target) == onDevice < target

NeedsFlashIfPresent(onDevice, target) == onDevice # None /\ onDevice # target

NeedsFlash(onDevice, target) == onDevice # target

\* if ble_rev: the BLE stage is entered
BleStageEntered(ble_rev) == Truthy(ble_rev)

----------------------------------------------------------------------------
(* Dfu.samba_bootloader *)

GateRejectsNoVendor(v, chip, revision) ==
    \/ ~IsSubstring(Sam4s, chip)
    \/ revision < MinRevision

GateRejectsOffByOne(v, chip, revision) ==
    \/ v # InputClubVid
    \/ ~IsSubstring(Sam4s, chip)
    \/ revision < MinRevision - 1

\* The three checks that raise NotImplementedError
GateRejects(v, chip, revision) ==
    \/ v # InputClubVid
    \/ ~IsSubstring(Sam4s, chip)
    \/ revision < MinRevision

\* The two tool invocations after the gate: dfu-suffix, then dfu-util
SwitchSuffix(i) ==
    Entry("dfu-suffix", "add", None, i.vid, i.pid, <<Tok("tempfile", <<>>)>>)

SwitchDownload(i) ==
    Entry("dfu-util", "download", 0, i.vid, i.pid, <<Tok("tempfile", <<>>)>>)

\* Dfu.download(file, alt) and Dfu.reset(alt): identity from interfaces[0]
DfuDownload(interfaces, file, alt) ==
    Entry("dfu-util", "download", alt, interfaces[1].vid, interfaces[1].pid,
          <<Tok(file, <<>>)>>)

DfuResetWrongAlt(interfaces, alt) ==
    Entry("dfu-util", "detach", 1, interfaces[1].vid, interfaces[1].pid, <<>>)

DfuReset(interfaces, alt) ==
    Entry("dfu-util", "detach", alt, interfaces[1].vid, interfaces[1].pid, <<>>)

\* Dfu(path, vid, pid): the dfu-util --list invocation
DfuListEntry(v, p) == Entry("dfu-util", "list", None, v, p, <<>>)

----------------------------------------------------------------------------
(* Bossa.cmd *)

\* The options the script passes to bossa.cmd for the bootloader
BootloaderFlashOptsNoVerify ==
    [file |-> "bootloader_firmware", erase |-> "None", write |-> TRUE,
     boot_flash |-> TRUE, unlock_regions |-> bossa_regions,
     lock_regions |-> bossa_regions, verify |-> FALSE, reset |-> TRUE]

BootloaderFlashOpts ==
    [file |-> "bootloader_firmware", erase |-> "None", write |-> TRUE,
     boot_flash |-> TRUE, unlock_regions |-> bossa_regions,
     lock_regions |-> bossa_regions, verify |-> TRUE, reset |-> TRUE]

\* bossa_run_cmd = [self.bossa_cmd, '--port', self.port]
BossaBase(port) == <<Tok("--port", <<>>), Tok(port, <<>>)>>

\* The argument list of the unlock invocation (empty when none is issued)
BossaUnlockCmd(port, o) ==
    IF Len(o.unlock_regions) > 0
    THEN Append(BossaBase(port), Tok("--unlock", o.unlock_regions))
    ELSE <<>>

BossaFlashCmdVerifyAlways(port, o) ==
    LET hasFile == o.file # NoneStr /\ o.file # ""
        c0 == IF Len(o.unlock_regions) > 0
              THEN BossaUnlockCmd(port, o) ELSE BossaBase(port)
        c1 == IF hasFile THEN Append(c0, Tok(o.file, <<>>)) ELSE c0
        c2 == IF o.erase = "True" \/ (hasFile /\ o.write)
              THEN Append(c1, Tok("--erase", <<>>)) ELSE c1
        c3 == IF o.write THEN Append(c2, Tok("--write", <<>>)) ELSE c2
        c4 == IF o.boot_flash THEN Append(c3, Tok("--boot=1", <<>>))
              ELSE Append(c3, Tok("--boot=0", <<>>))
        c5 == IF Len(o.lock_regions) > 0
              THEN Append(c4, Tok("--lock", o.lock_regions)) ELSE c4
        c6 == IF o.verify THEN Append(c5, Tok("--verify", <<>>)) ELSE c5
        c7 == IF o.reset THEN Append(c6, Tok("--reset", <<>>)) ELSE c6
    IN c7

\* The argument list of the second invocation. bossa_run_cmd_unlock is the
\* same list object as bossa_run_cmd, so the --unlock option stays in it.
BossaFlashCmd(port, o) ==
    LET hasFile == o.file # NoneStr /\ o.file # ""
        c0 == IF Len(o.unlock_regions) > 0
              THEN BossaUnlockCmd(port, o) ELSE BossaBase(port)
        c1 == IF hasFile THEN Append(c0, Tok(o.file, <<>>)) ELSE c0
        c2 == IF o.erase = "True" \/ (hasFile /\ o.write)
              THEN Append(c1, Tok("--erase", <<>>)) ELSE c1
        c3 == IF o.write THEN Append(c2, Tok("--write", <<>>)) ELSE c2
        c4 == IF o.boot_flash THEN Append(c3, Tok("--boot=1", <<>>))
              ELSE Append(c3, Tok("--boot=0", <<>>))
        c5 == IF Len(o.lock_regions) > 0
              THEN Append(c4, Tok("--lock", o.lock_regions)) ELSE c4
        c6 == IF o.verify /\ hasFile THEN Append(c5, Tok("--verify", <<>>))
              ELSE c5
        c7 == IF o.reset THEN Append(c6, Tok("--reset", <<>>)) ELSE c6
    IN c7

\* One subprocess.run of bossac as Bossa.cmd issues it
BossaInvocation(what, args, ok) == [what |-> what, args |-> args, ok |-> ok]

BossaCmdUnchecked(port, o, okUnlock, okFlash) ==
    LET u == IF Len(o.unlock_regions) > 0
             THEN <<BossaInvocation("unlock", BossaUnlockCmd(port, o), okUnlock)>>
             ELSE <<>>
    IN [status |-> IF okFlash THEN "ok" ELSE "failed",
        invocations |->
            Append(u, BossaInvocation("flash", BossaFlashCmd(port, o), okFlash))]

\* Bossa.cmd: the unlock invocation (check=True) when regions are given,
\* then the flash invocation (check=True); okUnlock / okFlash are the exit
\* statuses bossac would give
BossaCmd(port, o, okUnlock, okFlash) ==
    LET u == IF Len(o.unlock_regions) > 0
             THEN <<BossaInvocation("unlock", BossaUnlockCmd(port, o), okUnlock)>>
             ELSE <<>>
    IN IF Len(o.unlock_regions) > 0 /\ ~okUnlock
       THEN [status |-> "failed", invocations |-> u]
       ELSE [status |-> IF okFlash THEN "ok" ELSE "failed",
             invocations |->
                 Append(u, BossaInvocation("flash", BossaFlashCmd(port, o), okFlash))]

\* Python's str < str on device-node names: the first differing character
\* decides, and a proper prefix is the smaller one
StrLess(a, b) ==
    \E k \in 1..Len(b) :
        /\ \A j \in 1..(k - 1) : j <= Len(a) /\ a[j] = b[j]
        /\ k > Len(a) \/ a[k] < b[k]

\* sorted(device_list, key=getkey) built one item at a time: the item goes
\* after every item whose device node is not greater (the sort is stable)
InsertByNode(x, s) ==
    LET k == Cardinality({i \in 1..Len(s) : ~StrLess(x.node, s[i].node)})
    IN SubSeq(s, 1, k) \o <<x>> \o SubSeq(s, k + 1, Len(s))

RECURSIVE SortedByNode(_)
SortedByNode(s) ==
    IF s = <<>> THEN <<>>
    ELSE InsertByNode(s[Len(s)], SortedByNode(SubSeq(s, 1, Len(s) - 1)))

\* if path: matches = matches.match_sys_name(path)
MatchSysName(enum, path) ==
    IF TruthyStr(path) THEN SelectSeq(enum, LAMBDA c : c.sys_name = path)
    ELSE enum

FromUdevUnsorted(enum, path) ==
    LET device_list == MatchSysName(enum, path)
    IN IF Len(device_list) = 0
       THEN [status |-> "FileNotFoundError", port |-> <<>>]
       ELSE [status |-> "ok", port |-> device_list[1].node]

\* Bossa.from_udev on the (device_node, sys_name) pairs udev enumerates
FromUdev(enum, path) ==
    LET device_list == MatchSysName(enum, path)
    IN IF Len(device_list) = 0
       THEN [status |-> "FileNotFoundError", port |-> <<>>]
       ELSE [status |-> "ok", port |-> SortedByNode(device_list)[1].node]

\* SAM-BA serial ports udev reports below the watched USB port
SambaPorts(d) == IF d.mode = "samba" THEN <<"/dev/ttyACM0">> ELSE <<>>

----------------------------------------------------------------------------
(* The orchestrator: examples/full_reflash.py, one device of the outer loop *)

DevVers == {1200, 1232, 1233, 1400}
BootTargets == {1200, 1400}
McuRevs == {None, 1, 2}
McuTargets == {1}
BleRevs == {None, 1, 2}
BleTargets == {None, 0, 1}
Vids == {InputClubVid, 7185}
Pids == {1, 2}

AwaitPcs == {"AwaitSamba", "AwaitDfu", "AwaitBle"}

\* Events of other devices, and events of the watched port that are no bind
NoiseEvents ==
    { [name |-> OtherPath, action |-> "bind", vid |-> 7185, pid |-> 1],
      [name |-> Path, action |-> "unbind", vid |-> 7185, pid |-> 1] }

\* if device.sys_name == path and device.action == 'bind'
MatchesAnyAction(ev, path) == ev.name = path

Matches(ev, path) == ev.name = path /\ ev.action = "bind"

OInit ==
    /\ pc = "Start"
    /\ reason = ""
    /\ dev \in { d \in [mode : {"dfu"}, vid : Vids, pid : {1}, ver : DevVers,
                        chip : Chips, mcu_revision : McuRevs,
                        hasAlt0 : BOOLEAN, hasAlt1 : BOOLEAN,
                        ble_revision : BleRevs] :
                 /\ d.hasAlt1 <=> (d.ble_revision # None)
                 /\ d.hasAlt0 \/ d.hasAlt1 }
    /\ dev0 = dev
    /\ vid = dev.vid
    /\ pid = dev.pid
    /\ intf = <<>>
    /\ targets \in [bootloader_rev : BootTargets, mcu_rev : McuTargets,
                    ble_rev : BleTargets]
    /\ listening = FALSE
    /\ queue = <<>>
    /\ pollElapsed = 0
    /\ waitElapsed = 0
    /\ log = <<>>

RIdle ==
    /\ rFound = <<>>
    /\ rSerial = NoneStr
    /\ rBleSerial = NoneStr
    /\ rResult = [status |-> "idle", interfaces |-> <<>>]

\* No Bossa.cmd run in progress
BIdle ==
    /\ bOpts = BootloaderFlashOpts
    /\ bResult = [status |-> "idle", invocations |-> <<>>]

\* No Bossa.from_udev run in progress
SIdle ==
    /\ sEnum = <<>>
    /\ sPathArg = NoneStr
    /\ sResult = [status |-> "idle", port |-> <<>>]

\* No parse_serial run in progress
PsIdle ==
    /\ psRaw = <<>>
    /\ psResult = [status |-> "idle"]

\* No BossaInfo run in progress
PiIdle ==
    /\ piLines = <<>>
    /\ piResult = [status |-> "idle"]
    /\ piAgain = [status |-> "idle"]

\* No samba_bootloader run in progress
SwIdle ==
    /\ swIn = [status |-> "idle"]
    /\ swResult = [status |-> "idle"]

\* No lookup run in progress
LIdle ==
    /\ lWorld = <<>>
    /\ lArgs = [status |-> "idle"]
    /\ lResult = [status |-> "idle"]

Init == OInit /\ RIdle /\ BIdle /\ SIdle /\ PsIdle /\ PiIdle /\ SwIdle /\ LIdle

\* An exception leaves the script: the run ends
FailRetry(r) == pc' = pc /\ reason' = r

Fail(r) == pc' = "Failed" /\ reason' = r

\* intf = Dfu(path, vid, pid), then continue at nextpc
Resolve(nextpc) ==
    \E ok \in BOOLEAN :
        LET r == DfuInit(DfuList(World(dev), Path, vid, pid), NoneStr, NoneStr)
        IN /\ log' = Append(log, DfuListEntry(vid, pid))
           /\ IF ~ok
              THEN Fail("ToolInvocationFailed") /\ UNCHANGED intf
              ELSE IF r.status # "ok"
              THEN Fail(r.status) /\ UNCHANGED intf
              ELSE /\ intf' = r.interfaces
                   /\ pc' = nextpc
                   /\ UNCHANGED reason
           /\ UNCHANGED <<dev, vid, pid, targets, listening, queue,
                          pollElapsed, waitElapsed>>

\* line 81
Resolve1 == pc = "Start" /\ Resolve("CheckBootloader") /\ UNCHANGED <<dev0, rvars, fvars>>

\* line 145
Resolve2 == pc = "Resolve2" /\ Resolve("CheckBle") /\ UNCHANGED <<dev0, rvars, fvars>>

\* A comparison of the script and the branch it takes
Check(stage, alt, onDevice, target) ==
    Entry("check", stage, alt, None, None,
          <<Tok(IF NeedsFlash(onDevice, target) THEN "flash" ELSE "skip",
                <<onDevice, target>>)>>)

\* lines 84-96 with Dfu.samba_bootloader
CheckBootloader ==
    /\ pc = "CheckBootloader"
    /\ LET k == FirstAlt(intf, 0) IN
       IF k = 0
       THEN pc' = "Resolve2" /\ UNCHANGED <<reason, dev, log>>
       ELSE LET chk == Check("bootloader", 0, intf[k].ver,
                             targets.bootloader_rev)
            IN IF ~NeedsFlash(intf[k].ver, targets.bootloader_rev)
               THEN /\ pc' = "Resolve2"
                    /\ log' = Append(log, chk)
                    /\ UNCHANGED <<reason, dev>>
               ELSE IF GateRejects(intf[1].vid, intf[1].serial.chip, intf[1].ver)
               THEN /\ Fail("UnsupportedDevice")
                    /\ log' = Append(log, chk)
                    /\ UNCHANGED dev
               ELSE \E okSuffix, okDownload \in BOOLEAN :
                    IF ~okSuffix
                    THEN /\ Fail("ToolInvocationFailed")
                         /\ log' = log \o <<chk, SwitchSuffix(intf[1])>>
                         /\ UNCHANGED dev
                    ELSE IF ~okDownload
                    THEN /\ Fail("ToolInvocationFailed")
                         /\ log' = log \o <<chk, SwitchSuffix(intf[1]),
                                            SwitchDownload(intf[1])>>
                         /\ UNCHANGED dev
                    ELSE /\ pc' = "AwaitSamba"
                         /\ log' = log \o <<chk, SwitchSuffix(intf[1]),
                                            SwitchDownload(intf[1])>>
                         /\ dev' = [dev EXCEPT !.mode = "to_samba"]
                         /\ UNCHANGED reason
    /\ UNCHANGED <<vid, pid, intf, targets, listening, queue, pollElapsed,
                   waitElapsed>>
    /\ UNCHANGED <<dev0, rvars, fvars>>

\* monitor = pyudev.Monitor.from_netlink(context); the first poll starts it
MonitorStart ==
    /\ pc \in AwaitPcs
    /\ ~listening
    /\ listening' = TRUE
    /\ queue' = <<>>
    /\ pollElapsed' = 0
    /\ waitElapsed' = 0
    /\ UNCHANGED <<pc, reason, dev, vid, pid, intf, targets, log>>
    /\ UNCHANGED <<dev0, rvars, fvars>>

\* One second passes inside monitor.poll(3)
Tick ==
    /\ pc \in AwaitPcs
    /\ listening
    /\ queue = <<>>
    /\ pollElapsed < PollTimeout
    /\ pollElapsed' = pollElapsed + 1
    /\ waitElapsed' = waitElapsed + 1
    /\ UNCHANGED <<pc, reason, dev, vid, pid, intf, targets, listening, queue,
                   log>>
    /\ UNCHANGED <<dev0, rvars, fvars>>

\* The bus delivers an event that is not the awaited one
EnvNoise ==
    /\ pc \in AwaitPcs
    /\ listening
    /\ Len(queue) < MaxQueue
    /\ waitElapsed < MaxWait
    /\ \E ev \in NoiseEvents : queue' = Append(queue, ev)
    /\ UNCHANGED <<pc, reason, dev, vid, pid, intf, targets, listening,
                   pollElapsed, waitElapsed, log>>
    /\ UNCHANGED <<dev0, rvars, fvars>>

\* The device finishes re-enumerating: udev emits its bind event, which only a
\* started monitor receives
DevBind ==
    /\ dev.mode \in {"to_samba", "to_dfu"}
    /\ listening => Len(queue) < MaxQueue
    /\ dev' = [dev EXCEPT !.mode = IF dev.mode = "to_samba" THEN "samba" ELSE "dfu"]
    /\ queue' = IF listening
                THEN Append(queue,
                       IF dev.mode = "to_samba"
                       THEN [name |-> Path, action |-> "bind",
                             vid |-> SambaIds.vid, pid |-> SambaIds.pid]
                       ELSE [name |-> Path, action |-> "bind",
                             vid |-> dev.vid, pid |-> dev.pid])
                ELSE queue
    /\ UNCHANGED <<pc, reason, vid, pid, intf, targets, listening,
                   pollElapsed, waitElapsed, log>>
    /\ UNCHANGED <<dev0, rvars, fvars>>

\* The device is unplugged while it re-enumerates
DevUnplug ==
    /\ dev.mode \in {"to_samba", "to_dfu"}
    /\ dev' = [dev EXCEPT !.mode = "gone"]
    /\ UNCHANGED <<pc, reason, vid, pid, intf, targets, listening, queue,
                   pollElapsed, waitElapsed, log>>
    /\ UNCHANGED <<dev0, rvars, fvars>>

\* Where the script continues after each wait loop
AfterWaitRecheckBle(p) ==
    CASE p = "AwaitSamba" -> "FlashBootloader"
      [] p = "AwaitDfu" -> "Resolve2"
      [] p = "AwaitBle" -> "Resolve2"

AfterWait(p) ==
    CASE p = "AwaitSamba" -> "FlashBootloader"
      [] p = "AwaitDfu" -> "Resolve2"
      [] p = "AwaitBle" -> "CheckMcu"

RebindName(p) ==
    CASE p = "AwaitSamba" -> "samba"
      [] p = "AwaitDfu" -> "dfu"
      [] p = "AwaitBle" -> "ble"

\* vid / pid after a wait loop found its event: only the loop after the
\* bootloader flash reads idVendor / idProduct from the bound device
RefreshedIdsStale(p, ev, v, pd) == <<v, pd>>

RefreshedIds(p, ev, v, pd) ==
    IF p = "AwaitDfu" THEN <<ev.vid, ev.pid>> ELSE <<v, pd>>

\* monitor.poll(3) returns a device: one iteration of the for loop
PollEvent ==
    /\ pc \in AwaitPcs
    /\ listening
    /\ queue # <<>>
    /\ LET ev == Head(queue) IN
       IF Matches(ev, Path)
       THEN /\ pc' = AfterWait(pc)
            /\ log' = Append(log, Entry("rebind", RebindName(pc), None,
                                        ev.vid, ev.pid, <<>>))
            /\ listening' = FALSE
            /\ queue' = <<>>
            /\ pollElapsed' = 0
            /\ waitElapsed' = 0
            /\ vid' = RefreshedIds(pc, ev, vid, pid)[1]
            /\ pid' = RefreshedIds(pc, ev, vid, pid)[2]
       ELSE /\ queue' = Tail(queue)
            /\ pollElapsed' = 0
            /\ UNCHANGED <<pc, log, listening, waitElapsed, vid, pid>>
    /\ UNCHANGED <<reason, dev, intf, targets>>
    /\ UNCHANGED <<dev0, rvars, fvars>>

\* monitor.poll(3) returns None: the loop ends and assert found fails
PollTimeoutExpires ==
    /\ pc \in AwaitPcs
    /\ listening
    /\ queue = <<>>
    /\ pollElapsed = PollTimeout
    /\ Fail("ReenumerationTimeout")
    /\ listening' = FALSE
    /\ UNCHANGED <<dev, vid, pid, intf, targets, queue, pollElapsed,
                   waitElapsed, log>>
    /\ UNCHANGED <<dev0, rvars, fvars>>

\* lines 108-121: Bossa.from_udev, bossa.query and bossa.cmd
FlashBootloader ==
    /\ pc = "FlashBootloader"
    /\ LET ports == SambaPorts(dev) IN
       IF Len(ports) = 0
       THEN Fail("NoDeviceFound") /\ UNCHANGED <<dev, log>>
       ELSE LET port == ports[1]
                o == BootloaderFlashOpts
                infoE == Entry("bossac", "info", None, None, None,
                               Append(BossaBase(port), Tok("--info", <<>>)))
                unlockE == IF Len(o.unlock_regions) > 0
                           THEN <<Entry("bossac", "unlock", None, None, None,
                                        BossaUnlockCmd(port, o))>>
                           ELSE <<>>
                flashE == Entry("bossac", "flash", None, None, None,
                                BossaFlashCmd(port, o))
            IN \E okInfo, okUnlock, okFlash \in BOOLEAN :
               IF ~okInfo
               THEN /\ Fail("ToolInvocationFailed")
                    /\ log' = Append(log, infoE)
                    /\ UNCHANGED dev
               ELSE IF ~okUnlock /\ Len(o.unlock_regions) > 0
               THEN /\ Fail("ToolInvocationFailed")
                    /\ log' = Append(log, infoE) \o unlockE
                    /\ UNCHANGED dev
               ELSE IF ~okFlash
               THEN /\ Fail("ToolInvocationFailed")
                    /\ log' = Append(Append(log, infoE) \o unlockE, flashE)
                    /\ UNCHANGED dev
               ELSE /\ pc' = "AwaitDfu"
                    /\ log' = Append(Append(log, infoE) \o unlockE, flashE)
                    /\ \E newPid \in Pids :
                         dev' = [dev EXCEPT !.mode = "to_dfu",
                                            !.ver = targets.bootloader_rev,
                                            !.pid = newPid]
                    /\ UNCHANGED reason
    /\ UNCHANGED <<vid, pid, intf, targets, listening, queue, pollElapsed,
                   waitElapsed>>
    /\ UNCHANGED <<dev0, rvars, fvars>>

\* lines 148-162: the BLE check and intf.download(args.ble_firmware, alt=1)
CheckBle ==
    /\ pc = "CheckBle"
    /\ LET k == FirstAlt(intf, 1) IN
       IF ~BleStageEntered(targets.ble_rev) \/ k = 0
       THEN pc' = "CheckMcu" /\ UNCHANGED <<reason, dev, log>>
       ELSE LET chk == Check("ble", 1, intf[k].serial.ble_revision,
                             targets.ble_rev)
                dl == DfuDownload(intf, "ble_firmware", 1)
            IN IF ~NeedsFlash(intf[k].serial.ble_revision, targets.ble_rev)
               THEN /\ pc' = "CheckMcu"
                    /\ log' = Append(log, chk)
                    /\ UNCHANGED <<reason, dev>>
               ELSE \E ok \in BOOLEAN :
                    IF ~ok
                    THEN /\ Fail("ToolInvocationFailed")
                         /\ log' = log \o <<chk, dl>>
                         /\ UNCHANGED dev
                    ELSE /\ pc' = "AwaitBle"
                         /\ log' = log \o <<chk, dl>>
                         /\ dev' = [dev EXCEPT !.mode = "to_dfu",
                                               !.ble_revision = targets.ble_rev]
                         /\ UNCHANGED reason
    /\ UNCHANGED <<vid, pid, intf, targets, listening, queue, pollElapsed,
                   waitElapsed>>
    /\ UNCHANGED <<dev0, rvars, fvars>>

\* lines 180-204: the MCU check, intf.download(args.mcu_firmware, alt=0) or
\* intf.reset(alt=0), and the end of the loop body
CheckMcu ==
    /\ pc = "CheckMcu"
    /\ LET k == FirstAlt(intf, 0) IN
       IF k = 0
       THEN pc' = "Done" /\ UNCHANGED <<reason, dev, log>>
       ELSE LET chk == Check("mcu", 0, intf[k].serial.mcu_revision,
                             targets.mcu_rev)
                dl == DfuDownload(intf, "mcu_firmware", 0)
                rs == DfuReset(intf, 0)
            IN \E ok \in BOOLEAN :
               IF NeedsFlash(intf[k].serial.mcu_revision, targets.mcu_rev)
               THEN /\ log' = log \o <<chk, dl>>
                    /\ IF ok
                       THEN /\ pc' = "Done"
                            /\ dev' = [dev EXCEPT !.mode = "fw",
                                                  !.mcu_revision = targets.mcu_rev]
                            /\ UNCHANGED reason
                       ELSE Fail("ToolInvocationFailed") /\ UNCHANGED dev
               ELSE /\ log' = log \o <<chk, rs>>
                    /\ IF ok
                       THEN /\ pc' = "Done"
                            /\ dev' = [dev EXCEPT !.mode = "fw"]
                            /\ UNCHANGED reason
                       ELSE Fail("ToolInvocationFailed") /\ UNCHANGED dev
    /\ UNCHANGED <<vid, pid, intf, targets, listening, queue, pollElapsed,
                   waitElapsed>>
    /\ UNCHANGED <<dev0, rvars, fvars>>

Next ==
    \/ Resolve1
    \/ CheckBootloader
    \/ MonitorStart
    \/ Tick
    \/ EnvNoise
    \/ DevBind
    \/ DevUnplug
    \/ PollEvent
    \/ PollTimeoutExpires
    \/ FlashBootloader
    \/ Resolve2
    \/ CheckBle
    \/ CheckMcu

Spec == Init /\ [][Next]_vars

----------------------------------------------------------------------------
(* The resolver on its own: Dfu(serial=..., ble_serial=...) over the records  *)
(* of a dfu-util --list output                                              *)

SeqsUpTo(S, n) == UNION { [1..k -> S] : k \in 0..n }

ResolverRecords ==
    [path : {Path, OtherPath}, alt : {0, 1},
     serial : [serial : {"A", "B"}, ble_serial : {NoneStr, "X"}]]

OIdle ==
    /\ pc = "Idle"
    /\ reason = ""
    /\ dev = [mode |-> "gone"]
    /\ dev0 = dev
    /\ vid = None
    /\ pid = None
    /\ intf = <<>>
    /\ targets = [bootloader_rev |-> None, mcu_rev |-> None, ble_rev |-> None]
    /\ listening = FALSE
    /\ queue = <<>>
    /\ pollElapsed = 0
    /\ waitElapsed = 0
    /\ log = <<>>

ResolverInit ==
    /\ OIdle
    /\ rFound \in SeqsUpTo(ResolverRecords, MaxCand)
    /\ rSerial \in {NoneStr, "A"}
    /\ rBleSerial \in {NoneStr, "X"}
    /\ rResult = [status |-> "idle", interfaces |-> <<>>]
    /\ BIdle /\ SIdle /\ PsIdle /\ PiIdle /\ SwIdle /\ LIdle

\* Dfu(serial=rSerial, ble_serial=rBleSerial) on the listed records
ResolverRun ==
    /\ rResult.status = "idle"
    /\ rResult' = DfuInit(rFound, rSerial, rBleSerial)
    /\ UNCHANGED <<rFound, rSerial, rBleSerial>>
    /\ UNCHANGED <<ovars, fvars>>

ResolverNext == ResolverRun

ResolverSpec == ResolverInit /\ [][ResolverNext]_vars

----------------------------------------------------------------------------
(* Bossa.cmd on its own, for every combination of keyword arguments *)

BossaPort == "/dev/ttyACM0"

BossaFiles == {NoneStr, "fw.bin"}

BossaErase == {"None", "True", "False"}

UnlockRegionLists == {<<>>, <<0>>, <<0, 1, 2>>, <<2, 0>>}

LockRegionLists == {<<>>, <<0, 1, 2>>}

BossaOptions ==
    [file : BossaFiles, erase : BossaErase, write : BOOLEAN,
     boot_flash : BOOLEAN, unlock_regions : UnlockRegionLists,
     lock_regions : LockRegionLists, verify : BOOLEAN, reset : BOOLEAN]

BossaInit ==
    /\ OIdle /\ RIdle /\ SIdle /\ PsIdle /\ PiIdle /\ SwIdle /\ LIdle
    /\ bOpts \in BossaOptions
    /\ bResult = [status |-> "idle", invocations |-> <<>>]

\* Bossa(port).cmd(**bOpts)
BossaRun ==
    /\ bResult.status = "idle"
    /\ \E okUnlock, okFlash \in BOOLEAN :
          bResult' = BossaCmd(BossaPort, bOpts, okUnlock, okFlash)
    /\ UNCHANGED <<bOpts, ovars, rvars, svars, psvars, pivars, swvars, lvars>>

BossaNext == BossaRun

BossaSpec == BossaInit /\ [][BossaNext]_vars

----------------------------------------------------------------------------
(* Bossa.from_udev on its own, for every enumeration of candidates *)

MaxPorts == 3

\* Device nodes /dev/ttyACM0, /dev/ttyACM1, /dev/ttyACM10, /dev/ttyACM2:
\* the characters after the common prefix, each digit as its value
DeviceNodes == {<<0>>, <<1>>, <<1, 0>>, <<2>>}

SambaCandidates == [node : DeviceNodes, sys_name : {Path, OtherPath}]

\* Enumerations: every device node belongs to one tty device
SambaEnumerations ==
    {q \in SeqsUpTo(SambaCandidates, MaxPorts) :
        \A i, j \in 1..Len(q) : i # j => q[i].node # q[j].node}

SambaInit ==
    /\ OIdle /\ RIdle /\ BIdle /\ PsIdle /\ PiIdle /\ SwIdle /\ LIdle
    /\ sEnum \in SambaEnumerations
    /\ sPathArg \in {NoneStr, Path}
    /\ sResult = [status |-> "idle", port |-> <<>>]

\* Bossa.from_udev(bossa_cmd, path=sPathArg)
SambaRun ==
    /\ sResult.status = "idle"
    /\ sResult' = FromUdev(sEnum, sPathArg)
    /\ UNCHANGED <<sEnum, sPathArg, ovars, rvars, bvars, psvars, pivars, swvars, lvars>>

SambaNext == SambaRun

SambaSpec == SambaInit /\ [][SambaNext]_vars

----------------------------------------------------------------------------
(* DfuInfo.parse_serial on its own; a string is a sequence of characters *)

\* Python's None for a string held as a sequence of characters
NoneChars == <<NoneStr>>

HexUpper == <<"0", "1", "2", "3", "4", "5", "6", "7",
              "8", "9", "A", "B", "C", "D", "E", "F">>

HexLower == <<"0", "1", "2", "3", "4", "5", "6", "7",
              "8", "9", "a", "b", "c", "d", "e", "f">>

IsHexDigit(c) == \E i \in 1..16 : HexUpper[i] = c \/ HexLower[i] = c

HexDigitValue(c) == (CHOOSE i \in 1..16 : HexUpper[i] = c \/ HexLower[i] = c) - 1

\* int(x, 16) accepts a 0x / 0X prefix
HexBody(x) ==
    IF Len(x) >= 2 /\ x[1] = "0" /\ x[2] \in {"x", "X"}
    THEN SubSeq(x, 3, Len(x)) ELSE x

\* int(x, 16) raises ValueError unless x is a non-empty run of hex digits
IsHex(x) ==
    LET y == HexBody(x)
    IN Len(y) > 0 /\ \A i \in 1..Len(y) : IsHexDigit(y[i])

RECURSIVE HexDigitsValue(_)
HexDigitsValue(y) ==
    IF Len(y) = 0 THEN 0
    ELSE 16 * HexDigitsValue(SubSeq(y, 1, Len(y) - 1)) + HexDigitValue(y[Len(y)])

HexValue(x) == HexDigitsValue(HexBody(x))

\* str.split(sep) for a one-character separator: adjacent separators give
\* empty strings, a string without the separator gives itself
RECURSIVE Split(_, _)
Split(x, sep) ==
    IF \E i \in 1..Len(x) : x[i] = sep
    THEN LET i == CHOOSE k \in 1..Len(x) :
                      x[k] = sep /\ \A j \in 1..(k - 1) : x[j] # sep
         IN <<SubSeq(x, 1, i - 1)>> \o Split(SubSeq(x, i + 1, Len(x)), sep)
    ELSE <<x>>

McuRevisionOfZero(chip_rev) ==
    IF Len(chip_rev) > 1 THEN HexValue(chip_rev[2]) ELSE 0

\* mcu_revision = None; if len(chip_rev) > 1: mcu_revision = int(chip_rev[1], 16)
McuRevisionOf(chip_rev) ==
    IF Len(chip_rev) > 1 THEN HexValue(chip_rev[2]) ELSE None

ShortSerialDefault(raw_serial_split) ==
    [status |-> "ok", serial |-> raw_serial_split[1], chip |-> NoneChars,
     mcu_revision |-> None, ble_serial |-> NoneChars, ble_chip |-> NoneChars,
     ble_revision |-> None]

\* raw_serial_split[2] on a list of fewer than 3 tokens
ShortSerial(raw_serial_split) == [status |-> "IndexError"]

\* DfuInfo.parse_serial: the dict it returns, or the exception it raises
ParseSerial(raw_serial) ==
    LET raw_serial_split == Split(raw_serial, " ") IN
    IF Len(raw_serial_split) < 3 THEN ShortSerial(raw_serial_split)
    ELSE
    LET chip_rev == Split(raw_serial_split[3], ":")
        chip == IF Len(chip_rev) > 1 THEN chip_rev[1] ELSE raw_serial_split[3]
    IN
    IF Len(chip_rev) > 1 /\ ~IsHex(chip_rev[2]) THEN [status |-> "ValueError"]
    ELSE IF Len(raw_serial_split) > 5
    THEN IF Len(raw_serial_split) < 7 THEN [status |-> "IndexError"]
         ELSE LET ble_chip_rev == Split(raw_serial_split[7], ":") IN
              IF Len(ble_chip_rev) < 2 THEN [status |-> "IndexError"]
              ELSE IF ~IsHex(ble_chip_rev[2]) THEN [status |-> "ValueError"]
              ELSE [status |-> "ok",
                    serial |-> raw_serial_split[1],
                    chip |-> chip,
                    mcu_revision |-> McuRevisionOf(chip_rev),
                    ble_serial |-> raw_serial_split[5],
                    ble_chip |-> ble_chip_rev[1],
                    ble_revision |-> HexValue(ble_chip_rev[2])]
    ELSE [status |-> "ok",
          serial |-> raw_serial_split[1],
          chip |-> chip,
          mcu_revision |-> McuRevisionOf(chip_rev),
          ble_serial |-> NoneChars,
          ble_chip |-> NoneChars,
          ble_revision |-> None]

\* Four upper-case hex digits, as in sam4s4b:04E3
Hex4(n) ==
    <<HexUpper[((n \div 4096) % 16) + 1], HexUpper[((n \div 256) % 16) + 1],
      HexUpper[((n \div 16) % 16) + 1], HexUpper[(n % 16) + 1]>>

\* The iSerial string of the documented examples:
\*   serial - chip[:REV][ | ble_serial - ble_chip:REV]
FormatSerial(f) ==
    f.serial \o <<" ", "-", " ">> \o f.chip
    \o (IF f.mcu_revision = None THEN <<>> ELSE <<":">> \o Hex4(f.mcu_revision))
    \o (IF f.ble_serial = NoneChars THEN <<>>
        ELSE <<" ", "|", " ">> \o f.ble_serial \o <<" ", "-", " ">>
             \o f.ble_chip \o <<":">> \o Hex4(f.ble_revision))

\* ' '.join(tokens)
RECURSIVE JoinSpace(_)
JoinSpace(tokens) ==
    IF Len(tokens) = 0 THEN <<>>
    ELSE IF Len(tokens) = 1 THEN tokens[1]
    ELSE tokens[1] \o <<" ">> \o JoinSpace(SubSeq(tokens, 2, Len(tokens)))

ExampleSerial == <<"5", "3", "3", "5", "3", "1", "0", "0", "5", "0", "4", "6", "4", "D", "4", "B", "3", "5", "3", "0", "3", "4", "3", "2", "3", "2", "3", "3", "3", "0", "3", "3">>

ExampleBleSerial == <<"6", "9", "7", "E", "9", "7", "E", "3", "A", "1", "8", "6", "C", "5", "D", "F">>

Nrf == <<"n", "R", "F", "5", "2", "8", "1", "0">>

SerialFields ==
    [serial : {ExampleSerial, <<"A", "1">>},
     chip : Chips,
     mcu_revision : {None, 0, 1233, 1251},
     ble_serial : {NoneChars},
     ble_chip : {NoneChars},
     ble_revision : {None}]
    \cup
    [serial : {ExampleSerial, <<"A", "1">>},
     chip : Chips,
     mcu_revision : {None, 0, 1233, 1251},
     ble_serial : {ExampleBleSerial},
     ble_chip : {Nrf},
     ble_revision : {0, 21}]

\* Strings of the grammar, and every leading run of their tokens
RawSerials ==
    {<<>>}
    \cup {FormatSerial(f) : f \in SerialFields}
    \cup UNION {{JoinSpace(SubSeq(Split(FormatSerial(f), " "), 1, n)) :
                   n \in 1..Len(Split(FormatSerial(f), " "))} : f \in SerialFields}

ParseInit ==
    /\ OIdle /\ RIdle /\ BIdle /\ SIdle /\ PiIdle /\ SwIdle /\ LIdle
    /\ psRaw \in RawSerials
    /\ psResult = [status |-> "idle"]

\* DfuInfo.parse_serial(psRaw)
ParseRun ==
    /\ psResult.status = "idle"
    /\ psResult' = ParseSerial(psRaw)
    /\ UNCHANGED <<psRaw, ovars, rvars, bvars, svars, pivars, swvars, lvars>>

ParseNext == ParseRun

ParseSpec == ParseInit /\ [][ParseNext]_vars

----------------------------------------------------------------------------
(* BossaInfo on its own; the bossac --info output is a sequence of lines *)

DecDigits == <<"0", "1", "2", "3", "4", "5", "6", "7", "8", "9">>

IsDecDigit(c) == \E i \in 1..10 : DecDigits[i] = c

DecDigitValue(c) == (CHOOSE i \in 1..10 : DecDigits[i] = c) - 1

\* int() ignores blanks around the digits
RECURSIVE StripBlanks(_)
StripBlanks(x) ==
    IF Len(x) > 0 /\ x[1] = " " THEN StripBlanks(SubSeq(x, 2, Len(x)))
    ELSE IF Len(x) > 0 /\ x[Len(x)] = " "
    THEN StripBlanks(SubSeq(x, 1, Len(x) - 1))
    ELSE x

\* int(x) raises ValueError unless x is a non-empty run of digits
IsDec(x) ==
    LET y == StripBlanks(x)
    IN Len(y) > 0 /\ \A i \in 1..Len(y) : IsDecDigit(y[i])

RECURSIVE DecDigitsValue(_)
DecDigitsValue(y) ==
    IF Len(y) = 0 THEN 0
    ELSE 10 * DecDigitsValue(SubSeq(y, 1, Len(y) - 1)) + DecDigitValue(y[Len(y)])

DecValue(x) == DecDigitsValue(StripBlanks(x))

\* str.split(sep) for a separator of any length
RECURSIVE SplitStr(_, _)
SplitStr(x, sep) ==
    IF IsSubstring(sep, x)
    THEN LET i == CHOOSE k \in 1..Len(x) :
                      /\ SubSeq(x, k, k + Len(sep) - 1) = sep
                      /\ \A j \in 1..(k - 1) : SubSeq(x, j, j + Len(sep) - 1) # sep
         IN <<SubSeq(x, 1, i - 1)>>
            \o SplitStr(SubSeq(x, i + Len(sep), Len(x)), sep)
    ELSE <<x>>

\* str.split(' ', 1)
SplitOnce(x) ==
    IF \E i \in 1..Len(x) : x[i] = " "
    THEN LET i == CHOOSE k \in 1..Len(x) :
                      x[k] = " " /\ \A j \in 1..(k - 1) : x[j] # " "
         IN <<SubSeq(x, 1, i - 1), SubSeq(x, i + 1, Len(x))>>
    ELSE <<x>>

\* The labels BossaInfo.set looks for
LDevice == <<"D", "e", "v", "i", "c", "e">>
LVersion == <<"V", "e", "r", "s", "i", "o", "n">>
LAddress == <<"A", "d", "d", "r", "e", "s", "s">>
LPages == <<"P", "a", "g", "e", "s">>
LPageSize == <<"P", "a", "g", "e", " ", "S", "i", "z", "e">>
LTotalSize == <<"T", "o", "t", "a", "l", " ", "S", "i", "z", "e">>
LPlanes == <<"P", "l", "a", "n", "e", "s">>
LLockRegions == <<"L", "o", "c", "k", " ", "R", "e", "g", "i", "o", "n", "s">>
LLocked == <<"L", "o", "c", "k", "e", "d">>
LSecurity == <<"S", "e", "c", "u", "r", "i", "t", "y">>
LBootFlash == <<"B", "o", "o", "t", " ", "F", "l", "a", "s", "h">>
LUniqueId == <<"U", "n", "i", "q", "u", "e", " ", "I", "d">>

ColonSpace == <<":", " ">>

KB == <<"K", "B">>

MB == <<"M", "B">>

\* self.security = bool(value == 'true')
BoolOf(value) == IF value = <<"t", "r", "u", "e">> THEN "True" ELSE "False"

\* BossaInfo.__init__: every field None
FreshInfo ==
    [status |-> "ok", device |-> NoneChars, version |-> NoneChars,
     version_date |-> NoneChars, address |-> None, pages |-> None,
     page_size |-> None, total_size |-> None, planes |-> None,
     lock_region |-> None, locked |-> NoneChars, security |-> NoneStr,
     boot_flash |-> NoneStr, unique_id |-> NoneChars]

ScaleOfDecimal(unit) == IF unit = KB THEN 1000 ELSE 1000 * 1000

\* int(...) * 1024 for KB, int(...) * 1024 * 1024 for MB
ScaleOf(unit) == IF unit = KB THEN 1024 ELSE 1024 * 1024

\* The Total Size branch: a value with neither suffix leaves the field alone
SetTotalSize(rec, value) ==
    IF IsSubstring(KB, value)
    THEN IF IsDec(SplitStr(value, KB)[1])
         THEN [rec EXCEPT !.total_size = DecValue(SplitStr(value, KB)[1]) * ScaleOf(KB)]
         ELSE [status |-> "ValueError"]
    ELSE IF IsSubstring(MB, value)
    THEN IF IsDec(SplitStr(value, MB)[1])
         THEN [rec EXCEPT !.total_size = DecValue(SplitStr(value, MB)[1]) * ScaleOf(MB)]
         ELSE [status |-> "ValueError"]
    ELSE rec

\* A decimal field: int(value)
SetDec(rec, value, field) ==
    IF IsDec(value) THEN [rec EXCEPT ![field] = DecValue(value)]
    ELSE [status |-> "ValueError"]

LabelOrderLoose ==
    <<LDevice, LVersion, LAddress, LPages, LPageSize, LTotalSize, LPlanes,
      LPlanes, <<"L", "o", "c", "k">>, LSecurity, LBootFlash, LUniqueId>>

\* The labels in the order of the if / elif chain
LabelOrder ==
    <<LDevice, LVersion, LAddress, LPages, LPageSize, LTotalSize, LPlanes,
      LLockRegions, LLocked, LSecurity, LBootFlash, LUniqueId>>

\* Position in the chain of the first label found in the line, 0 if none
BranchOf(ln) ==
    LET hits == {i \in 1..Len(LabelOrder) : IsSubstring(LabelOrder[i], ln)}
    IN IF hits = {} THEN 0 ELSE CHOOSE i \in hits : \A j \in hits : i <= j

\* One iteration of the loop of BossaInfo.set
SetLine(rec, ln) ==
    LET b == BranchOf(ln)
        parts == SplitStr(ln, ColonSpace)
    IN
    IF b = 0 THEN rec
    ELSE IF Len(parts) < 2 THEN [status |-> "IndexError"]
    ELSE
    LET value == parts[2] IN
    CASE b = 1 -> [rec EXCEPT !.device = value]
      [] b = 2 -> IF Len(SplitOnce(value)) = 2
                  THEN [rec EXCEPT !.version = SplitOnce(value)[1],
                                   !.version_date = SplitOnce(value)[2]]
                  ELSE [status |-> "ValueError"]
      [] b = 3 -> IF IsHex(value) THEN [rec EXCEPT !.address = HexValue(value)]
                  ELSE [status |-> "ValueError"]
      [] b = 4 -> SetDec(rec, value, "pages")
      [] b = 5 -> SetDec(rec, SplitOnce(value)[1], "page_size")
      [] b = 6 -> SetTotalSize(rec, value)
      [] b = 7 -> SetDec(rec, value, "planes")
      [] b = 8 -> SetDec(rec, value, "lock_region")
      [] b = 9 -> [rec EXCEPT !.locked = value]
      [] b = 10 -> [rec EXCEPT !.security = BoolOf(value)]
      [] b = 11 -> [rec EXCEPT !.boot_flash = BoolOf(value)]
      [] b = 12 -> [rec EXCEPT !.unique_id = value]

\* BossaInfo.set: the loop over the lines; an exception ends it
RECURSIVE BossaInfoSet(_, _)
BossaInfoSet(rec, lines) ==
    IF rec.status # "ok" \/ Len(lines) = 0 THEN rec
    ELSE BossaInfoSet(SetLine(rec, lines[1]), SubSeq(lines, 2, Len(lines)))

MaxLines == 2

\* label: value
InfoLine(label, value) == label \o ColonSpace \o value

SizeValues ==
    {<<"0", "K", "B">>, <<"6", "4", "K", "B">>, <<"1", "0", "2", "4", "K", "B">>,
     <<"1", "M", "B">>, <<"2", "M", "B">>, <<"5", "1", "2">>}

\* Lines whose label is none of the twelve: BOD: true, Chip Version: 2,
\* Old Device: X
UnknownLines ==
    {<<"B", "O", "D", ":", " ", "t", "r", "u", "e">>,
     <<"C", "h", "i", "p", " ", "V", "e", "r", "s", "i", "o", "n", ":", " ", "2">>,
     <<"O", "l", "d", " ", "D", "e", "v", "i", "c", "e", ":", " ", "X">>}

\* Lines of a bossac --info output, by label (0 is the empty line, 13 a
\* line with another label)
InfoLinesOf(b) ==
    CASE b = 0 -> {<<>>}
      [] b = 1 -> {InfoLine(LDevice, <<"S", "A", "M", "4", "S">>)}
      [] b = 2 -> {InfoLine(LVersion, <<"v", "1", " ", "M", "a", "r", " ", "1">>)}
      [] b = 3 -> {InfoLine(LAddress, <<"0", "x", "4", "0">>)}
      [] b = 4 -> {InfoLine(LPages, <<"5", "1", "2">>)}
      [] b = 5 -> {InfoLine(LPageSize, <<"6", "4", " ", "b", "y", "t", "e", "s">>)}
      [] b = 6 -> {InfoLine(LTotalSize, v) : v \in SizeValues}
      [] b = 7 -> {InfoLine(LPlanes, <<"1">>)}
      [] b = 8 -> {InfoLine(LLockRegions, <<"8">>)}
      [] b = 9 -> {InfoLine(LLocked, <<"n", "o", "n", "e">>)}
      [] b = 10 -> {InfoLine(LSecurity, <<"t", "r", "u", "e">>)}
      [] b = 11 -> {InfoLine(LBootFlash, <<"f", "a", "l", "s", "e">>)}
      [] b = 12 -> {InfoLine(LUniqueId, <<"A", "1">>)}
      [] b = 13 -> UnknownLines

\* The lines with the label they carry
InfoPool == UNION {{[b |-> b, text |-> t] : t \in InfoLinesOf(b)} : b \in 0..13}

\* Info blocks: at most MaxLines lines, one line per label
InfoBlocks ==
    UNION {{[i \in 1..k |-> q[i].text] :
              q \in {r \in [1..k -> InfoPool] :
                        \A i, j \in 1..k : i # j => r[i].b # r[j].b}} :
           k \in 0..MaxLines}

InfoInit ==
    /\ OIdle /\ RIdle /\ BIdle /\ SIdle /\ PsIdle /\ SwIdle /\ LIdle
    /\ piLines \in InfoBlocks
    /\ piResult = [status |-> "idle"]
    /\ piAgain = [status |-> "idle"]

\* info = BossaInfo(output), then info.set(output) again
InfoRun ==
    /\ piResult.status = "idle"
    /\ piResult' = BossaInfoSet(FreshInfo, piLines)
    /\ piAgain' = BossaInfoSet(BossaInfoSet(FreshInfo, piLines), piLines)
    /\ UNCHANGED <<piLines, ovars, rvars, bvars, svars, psvars, swvars, lvars>>

InfoNext == InfoRun

InfoSpec == InfoInit /\ [][InfoNext]_vars

----------------------------------------------------------------------------
(* Dfu.samba_bootloader on its own, with the blob and the argument texts *)

\* textwrap.wrap(serial_num, 8) on a string without blanks: runs of 8
\* characters, the last one shorter when the length is no multiple of 8
RECURSIVE Wrap8(_)
Wrap8(x) ==
    IF Len(x) = 0 THEN <<>>
    ELSE IF Len(x) <= 8 THEN <<x>>
    ELSE <<SubSeq(x, 1, 8)>> \o Wrap8(SubSeq(x, 9, Len(x)))

\* struct.pack('I', word): four bytes in the byte order of the host
PackI(word, host_little) ==
    LET b0 == word % 256
        b1 == (word \div 256) % 256
        b2 == (word \div 65536) % 256
        b3 == (word \div 16777216) % 256
    IN IF host_little THEN <<b0, b1, b2, b3>> ELSE <<b3, b2, b1, b0>>

\* The bytes written to the temporary file
RECURSIVE BlobOf(_, _)
BlobOf(words, host_little) ==
    IF Len(words) = 0 THEN <<>>
    ELSE PackI(HexValue(words[1]), host_little)
         \o BlobOf(SubSeq(words, 2, Len(words)), host_little)

\* '{}'.format(n) for an int
RECURSIVE DecChars(_)
DecChars(n) ==
    IF n < 10 THEN <<DecDigits[n + 1]>>
    ELSE DecChars(n \div 10) \o <<DecDigits[(n % 10) + 1]>>

\* '{:04x}'.format(n) for n below 0x10000
Hex4Lower(n) ==
    <<HexLower[((n \div 4096) % 16) + 1], HexLower[((n \div 256) % 16) + 1],
      HexLower[((n \div 16) % 16) + 1], HexLower[(n % 16) + 1]>>

\* '{}:{}'.format(vid, pid) with the ints of the parsed listing
DeviceArg(v, p) == DecChars(v) \o <<":">> \o DecChars(p)

\* dfu-suffix --vid .. --pid .. --add tf.name
SuffixCmd(i) ==
    [tool |-> "dfu-suffix",
     args |-> <<Tok("--vid", Hex4Lower(i.vid)), Tok("--pid", Hex4Lower(i.pid)),
                Tok("--add", <<"t", "f">>)>>]

\* dfu-util --alt 0 --device vid:pid --path path --download tf.name
SwitchDownloadCmd(i) ==
    [tool |-> "dfu-util",
     args |-> <<Tok("--alt", <<"0">>), Tok("--device", DeviceArg(i.vid, i.pid)),
                Tok("--path", i.path), Tok("--download", <<"t", "f">>)>>]

\* Dfu.samba_bootloader on interfaces[0] = i
SambaBootloader(i, okSuffix, okDownload) ==
    IF GateRejects(i.vid, i.chip, i.ver)
    THEN [status |-> "NotImplementedError", blob |-> <<>>, invocations |-> <<>>]
    ELSE LET blob == BlobOf(Wrap8(i.serial), i.host_little) IN
         IF ~okSuffix
         THEN [status |-> "CalledProcessError", blob |-> blob,
               invocations |-> <<SuffixCmd(i)>>]
         ELSE [status |-> IF okDownload THEN "ok" ELSE "CalledProcessError",
               blob |-> blob,
               invocations |-> <<SuffixCmd(i), SwitchDownloadCmd(i)>>]

SwitchSerials ==
    {ExampleSerial,
     <<"0", "4", "0", "3", "E", "3", "F", "F">>,
     <<"0", "1", "0", "2", "0", "3", "0", "4", "A", "A", "B", "B">>}

SwitchInputs ==
    [status : {"given"}, vid : {InputClubVid, 7185, 9}, pid : {1, 16, 45058},
     path : {<<"1", "-", "2">>}, chip : Chips, ver : {1232, 1233, 1400},
     serial : SwitchSerials, host_little : BOOLEAN]

SwitchInit ==
    /\ OIdle /\ RIdle /\ BIdle /\ SIdle /\ PsIdle /\ PiIdle /\ LIdle
    /\ swIn \in SwitchInputs
    /\ swResult = [status |-> "idle"]

\* intf.samba_bootloader()
SwitchRun ==
    /\ swResult.status = "idle"
    /\ \E okSuffix, okDownload \in BOOLEAN :
          swResult' = SambaBootloader(swIn, okSuffix, okDownload)
    /\ UNCHANGED <<swIn, ovars, rvars, bvars, svars, psvars, pivars, lvars>>

SwitchNext == SwitchRun

SwitchSpec == SwitchInit /\ [][SwitchNext]_vars

----------------------------------------------------------------------------
(* The two lookups of a DFU device, Dfu(...) and Dfu.from_udev(...), over
   every set of attached devices and every combination of filters *)

MaxDevices == 2

LookupDevices ==
    [path : {Path, OtherPath}, vid : {InputClubVid, 7185}, pid : {1, 2},
     serial : [serial : {"A", "B"}, ble_serial : {NoneStr, "X"}]]

\* Attached devices: one USB port holds one device
LookupWorlds ==
    {w \in SeqsUpTo(LookupDevices, MaxDevices) :
        \A i, j \in 1..Len(w) : i # j => w[i].path # w[j].path}

LookupArgs ==
    [status : {"given"}, path : {NoneStr, Path}, vid : {None, InputClubVid},
     pid : {None, 1}, serial : {NoneStr, "A"}, ble_serial : {NoneStr, "X"}]

\* What dfu-util --list prints for the attached devices: a Found DFU line
\* per alt-setting, alt-setting 1 on devices with a radio
RECURSIVE ListingOf(_)
ListingOf(w) ==
    IF Len(w) = 0 THEN <<>>
    ELSE LET d == w[1]
             rec(a) == [path |-> d.path, vid |-> d.vid, pid |-> d.pid,
                        alt |-> a, serial |-> d.serial]
         IN (IF d.serial.ble_serial # NoneStr THEN <<rec(0), rec(1)>>
             ELSE <<rec(0)>>) \o ListingOf(SubSeq(w, 2, Len(w)))

\* Dfu(path, vid, pid, serial, ble_serial)
DfuNew(w, a) ==
    DfuInit(DfuList(ListingOf(w), a.path, a.vid, a.pid), a.serial, a.ble_serial)

\* Dfu.from_udev(vid, pid, serial, ble_serial): match_attribute is called
\* without its value argument, and the final cls(path, ...) names a
\* variable the method does not have
DfuFromUdev(w, a) ==
    IF Truthy(a.vid) \/ Truthy(a.pid)
    THEN [status |-> "TypeError", interfaces |-> <<>>]
    ELSE LET found_devices ==
                 SelectSeq(w, LAMBDA d :
                     ~SerialSkips(d, a.serial, a.ble_serial))
         IN IF Len(found_devices) = 0
            THEN [status |-> "NoDeviceFound", interfaces |-> <<>>]
            ELSE IF Len(found_devices) > 1
            THEN [status |-> "AmbiguousDevice", interfaces |-> <<>>]
            ELSE [status |-> "NameError", interfaces |-> <<>>]

LookupInit ==
    /\ OIdle /\ RIdle /\ BIdle /\ SIdle /\ PsIdle /\ PiIdle /\ SwIdle
    /\ lWorld \in LookupWorlds
    /\ lArgs \in LookupArgs
    /\ lResult = [status |-> "idle"]

DfuNewRun ==
    /\ lResult.status = "idle"
    /\ lResult' = [op |-> "Dfu"] @@ DfuNew(lWorld, lArgs)
    /\ UNCHANGED <<lWorld, lArgs, ovars, rvars, bvars, svars, psvars, pivars,
                   swvars>>

\* The path argument is not one of from_udev's
DfuFromUdevRun ==
    /\ lResult.status = "idle"
    /\ lArgs.path = NoneStr
    /\ lResult' = [op |-> "from_udev"] @@ DfuFromUdev(lWorld, lArgs)
    /\ UNCHANGED <<lWorld, lArgs, ovars, rvars, bvars, svars, psvars, pivars,
                   swvars>>

LookupNext == DfuNewRun \/ DfuFromUdevRun

LookupSpec == LookupInit /\ [][LookupNext]_vars

----------------------------------------------------------------------------
(* Properties *)

Idx == 1..Len(log)

IsCheck(e, stage) == e.kind = "check" /\ e.what = stage

IsSwitchSuffix(e) == e.kind = "dfu-suffix"

IsSwitchDownload(e) ==
    e.kind = "dfu-util" /\ e.what = "download" /\ e.args = <<Tok("tempfile", <<>>)>>

IsBossa(e) == e.kind = "bossac"

IsBossaFlash(e) == e.kind = "bossac" /\ e.what = "flash"

IsDownloadOf(e, file) ==
    e.kind = "dfu-util" /\ e.what = "download" /\ e.args = <<Tok(file, <<>>)>>

IsDetach(e) == e.kind = "dfu-util" /\ e.what = "detach"

IsRebind(e, name) == e.kind = "rebind" /\ e.what = name

\* Any invocation that flashes or switches the device
IsFlashing(e) ==
    \/ e.kind = "dfu-suffix"
    \/ e.kind = "bossac"
    \/ (e.kind = "dfu-util" /\ e.what = "download")

HasTok(args, t) == \E k \in 1..Len(args) : args[k] = t

SupportedDevice(d) == d.vid = 12431 /\ IsSubstring(Sam4s, d.chip)

\* Failures that come from the environment, not from a decision of the script
EnvFailures ==
    {"ToolInvocationFailed", "ReenumerationTimeout", "NoDeviceFound",
     "AmbiguousDevice"}

\* The device lists alt-setting 0 and was on target in all three revisions
\* when the run started
NoOpCase ==
    /\ dev0.hasAlt0
    /\ dev0.ver = targets.bootloader_rev
    /\ dev0.mcu_revision = targets.mcu_rev
    /\ targets.ble_rev # None => dev0.ble_revision = targets.ble_rev

\* C1: a device already on target in bootloader, BLE (when a BLE target is
\* given) and MCU revision gets no flashing invocation (no dfu-suffix, no
\* bossac, no DFU download), at most one detach, every detach on alt-setting
\* 0, and exactly one detach once the run is done.
C1_NoOp ==
    NoOpCase =>
        /\ \A i \in Idx : ~IsFlashing(log[i])
        /\ \A i \in Idx : IsDetach(log[i]) => log[i].alt = 0
        /\ Cardinality({i \in Idx : IsDetach(log[i])}) <= 1
        /\ pc = "Done" => Cardinality({i \in Idx : IsDetach(log[i])}) = 1

C1_Witness ==
    /\ NoOpCase
    /\ targets.ble_rev # None
    /\ pc = "Done"
    /\ IsDetach(log[Len(log)])

\* C2: once the script has decided to switch (bootloader check says flash),
\* a device with firmware_version below 1233, or with a chip outside the sam4s
\* family, or with a vendor id other than 0x308f is rejected with
\* UnsupportedDevice, whatever its other attributes, and nothing was invoked
\* for the switch.
C2_SafetyGate ==
    (/\ \E i \in Idx : IsCheck(log[i], "bootloader") /\ log[i].args[1].o = "flash"
     /\ \/ dev0.ver < 1233
        \/ ~IsSubstring(Sam4s, dev0.chip)
        \/ dev0.vid # 12431)
    => /\ pc = "Failed"
       /\ reason = "UnsupportedDevice"
       /\ \A i \in Idx : ~IsFlashing(log[i])

C2_Witness ==
    /\ reason = "UnsupportedDevice"
    /\ dev0.ver = 1232
    /\ SupportedDevice(dev0)

\* The bootloader flash of scenario A: an unlock invocation for regions 0,1,2
\* directly followed by the flash invocation with file, boot-from-flash, lock
\* of regions 0,1,2, verify and reset
ScenarioFlashAt(j) ==
    /\ IsBossaFlash(log[j])
    /\ j > 1
    /\ log[j - 1].kind = "bossac" /\ log[j - 1].what = "unlock"
    /\ HasTok(log[j - 1].args, Tok("--unlock", <<0, 1, 2>>))
    /\ HasTok(log[j].args, Tok("bootloader_firmware", <<>>))
    /\ HasTok(log[j].args, Tok("--write", <<>>))
    /\ HasTok(log[j].args, Tok("--boot=1", <<>>))
    /\ HasTok(log[j].args, Tok("--lock", <<0, 1, 2>>))
    /\ HasTok(log[j].args, Tok("--verify", <<>>))
    /\ HasTok(log[j].args, Tok("--reset", <<>>))

\* switch_to_samba, then the bootloader flash, then the DFU re-resolution
ScenarioSequence ==
    \E i, j, m \in Idx :
        /\ i < j /\ j < m
        /\ IsSwitchDownload(log[i])
        /\ ScenarioFlashAt(j)
        /\ log[m].kind = "dfu-util" /\ log[m].what = "list"
        /\ Len(intf) > 0
        /\ \A k \in 1..Len(intf) : intf[k].path = Path

ScenarioEnded ==
    \/ pc \in {"CheckBle", "AwaitBle", "CheckMcu", "Done"}
    \/ (pc = "Failed" /\ reason \notin EnvFailures)

Survivors ==
    SelectSeq(rFound, LAMBDA i :
        /\ (rSerial # NoneStr => i.serial.serial = rSerial)
        /\ (rBleSerial # NoneStr => i.serial.ble_serial = rBleSerial))

SurvivorPaths == {Survivors[k].path : k \in 1..Len(Survivors)}

\* C4: survivors sharing one physical_path are all retained without an
\* ambiguity error; survivors spanning more than one physical_path raise
\* AmbiguousDevice; after a successful resolution all retained interfaces
\* have the same physical_path.
C4_Grouping ==
    rResult.status # "idle" =>
        /\ Cardinality(SurvivorPaths) = 1 =>
               rResult.status = "ok" /\ rResult.interfaces = Survivors
        /\ Cardinality(SurvivorPaths) > 1 => rResult.status = "AmbiguousDevice"
        /\ rResult.status = "ok" =>
               \A a, b \in 1..Len(rResult.interfaces) :
                   rResult.interfaces[a].path = rResult.interfaces[b].path

C4_Witness ==
    /\ rResult.status = "ok"
    /\ Len(rResult.interfaces) = 2
    /\ rResult.interfaces[1].alt # rResult.interfaces[2].alt
    /\ Len(rFound) = 3
    /\ \E k \in 1..3 : rFound[k].path # rResult.interfaces[1].path

\* C5: when no record survives the filters resolution raises NoDeviceFound,
\* so a constructed Dfu never holds an empty interface list.
C5_NotFound ==
    rResult.status # "idle" =>
        /\ Len(Survivors) = 0 => rResult.status = "NoDeviceFound"
        /\ rResult.status = "ok" => Len(rResult.interfaces) > 0

\* C6: every hotplug wait ends within the explicit timeout, whatever the
\* event feed delivers: no wait loop is ever more than PollTimeout seconds
\* old, neither while it runs nor when it fails.
C6_WaitBounded == waitElapsed <= PollTimeout

\* C7: a wait loop is left for the next stage only on an event with action
\* bind and the awaited path as device name; it is left as a failure only
\* when the feed timed out, with ReenumerationTimeout; and after a failure the
\* script runs no further stage.
C7_AwaitReenumeration ==
    [][ /\ (pc \in AwaitPcs /\ pc' \notin AwaitPcs /\ pc' # "Failed") =>
              /\ queue # <<>>
              /\ Head(queue).action = "bind"
              /\ Head(queue).name = Path
              /\ pc' \in {"FlashBootloader", "Resolve2", "CheckMcu"}
        /\ (pc \in AwaitPcs /\ pc' = "Failed") =>
              /\ reason' = "ReenumerationTimeout"
              /\ queue = <<>>
              /\ pollElapsed = 3
        /\ pc = "Failed" => (pc' = "Failed" /\ log' = log /\ reason' = reason)
      ]_vars

C7_Witness ==
    /\ pc = "Failed"
    /\ reason = "ReenumerationTimeout"
    /\ dev.mode = "gone"
    /\ waitElapsed > 3

\* The log entry after entry i, when there is one
HasNext(i) == i < Len(log)

\* C8: every revision comparison the script makes is an equality test: the
\* flash branch is taken iff the on-device and target revisions differ, also
\* when the target is the lower one, and the branch decides what is invoked
\* next (the switch, the BLE download, the MCU download) or not invoked.
C8_EqualityOnly ==
    \A i \in Idx : log[i].kind = "check" =>
        LET onDevice == log[i].args[1].r[1]
            target == log[i].args[1].r[2]
            flash == log[i].args[1].o = "flash"
        IN /\ flash <=> (onDevice # target)
           /\ IsCheck(log[i], "bootloader") =>
                /\ (flash /\ HasNext(i)) => IsSwitchSuffix(log[i + 1])
                /\ (flash /\ ~HasNext(i)) => reason = "UnsupportedDevice"
                /\ ~flash => \A j \in Idx : ~IsSwitchSuffix(log[j]) /\ ~IsBossa(log[j])
           /\ IsCheck(log[i], "ble") =>
                /\ flash => (HasNext(i) /\ IsDownloadOf(log[i + 1], "ble_firmware"))
                /\ ~flash => \A j \in Idx : ~IsDownloadOf(log[j], "ble_firmware")
           /\ IsCheck(log[i], "mcu") =>
                /\ flash => (HasNext(i) /\ IsDownloadOf(log[i + 1], "mcu_firmware"))
                /\ ~flash => \A j \in Idx : ~IsDownloadOf(log[j], "mcu_firmware")

C8_Witness ==
    /\ pc = "Done"
    /\ \E i, j, k \in Idx :
          /\ IsCheck(log[i], "bootloader") /\ IsCheck(log[j], "ble")
          /\ IsCheck(log[k], "mcu")
          /\ \A x \in {i, j, k} :
                /\ log[x].args[1].r[1] > log[x].args[1].r[2]
                /\ log[x].args[1].o = "flash"

\* Position of a log entry in the stage order of the script (0: a listing)
StageRank(e) ==
    CASE IsCheck(e, "bootloader") -> 1
      [] IsSwitchSuffix(e) -> 2
      [] IsSwitchDownload(e) -> 3
      [] IsRebind(e, "samba") -> 4
      [] e.kind = "bossac" /\ e.what = "info" -> 5
      [] e.kind = "bossac" /\ e.what = "unlock" -> 6
      [] IsBossaFlash(e) -> 7
      [] IsRebind(e, "dfu") -> 8
      [] IsCheck(e, "ble") -> 9
      [] IsDownloadOf(e, "ble_firmware") -> 10
      [] IsRebind(e, "ble") -> 11
      [] IsCheck(e, "mcu") -> 12
      [] IsDownloadOf(e, "mcu_firmware") -> 13
      [] IsDetach(e) -> 13
      [] OTHER -> 0

\* C9: the actions of a run occur in the stage order, each at most once:
\* bootloader check, switch, rebind, bootloader flash, rebind, BLE check, BLE
\* download, rebind, MCU check, MCU download or detach. A bootloader flash is
\* preceded by the switch and its rebind, a BLE or MCU download after a
\* bootloader flash comes after the rebind that follows the flash, and the
\* MCU check comes after the bootloader check.
C9_StageOrder ==
    /\ \A i, j \in Idx :
          (i < j /\ StageRank(log[i]) > 0 /\ StageRank(log[j]) > 0) =>
              StageRank(log[i]) < StageRank(log[j])
    /\ \A j \in Idx : IsBossaFlash(log[j]) =>
          \E i, r \in 1..j : /\ i < r
                             /\ IsSwitchDownload(log[i])
                             /\ IsRebind(log[r], "samba")
    /\ \A i, j \in Idx :
          (/\ i < j
           /\ IsBossaFlash(log[i])
           /\ log[j].kind = "dfu-util" /\ log[j].what \in {"download", "detach"})
          => \E r \in Idx : i < r /\ r < j /\ IsRebind(log[r], "dfu")
    /\ \A j \in Idx : IsCheck(log[j], "mcu") =>
          \E i \in 1..j : IsCheck(log[i], "bootloader")

C9_Witness ==
    /\ pc = "Done"
    /\ \E i, j, k \in Idx :
          /\ IsBossaFlash(log[i])
          /\ IsDownloadOf(log[j], "ble_firmware")
          /\ IsDownloadOf(log[k], "mcu_firmware")

\* C10: the MCU check compares the alt-setting 0 mcu_revision of the
\* resolved device with the MCU target; when they are equal the next
\* invocation is a detach on alt-setting 0 and the run has no MCU download;
\* when they differ (a device without mcu_revision included) the next
\* invocation is the download of the MCU image to alt-setting 0 and the run
\* has no detach.
C10_McuStage ==
    \A i \in Idx : IsCheck(log[i], "mcu") =>
        LET onDevice == log[i].args[1].r[1]
            target == log[i].args[1].r[2]
        IN /\ target = targets.mcu_rev
           /\ \E k \in 1..Len(intf) :
                 intf[k].alt = 0 /\ intf[k].serial.mcu_revision = onDevice
           /\ HasNext(i)
           /\ onDevice = target =>
                 /\ IsDetach(log[i + 1]) /\ log[i + 1].alt = 0
                 /\ \A j \in Idx : ~IsDownloadOf(log[j], "mcu_firmware")
           /\ onDevice # target =>
                 /\ IsDownloadOf(log[i + 1], "mcu_firmware")
                 /\ log[i + 1].alt = 0
                 /\ \A j \in Idx : ~IsDetach(log[j])

C10_Witness ==
    /\ pc = "Done"
    /\ dev0.mcu_revision = None
    /\ IsDownloadOf(log[Len(log)], "mcu_firmware")
    /\ log[Len(log)].alt = 0

\* C11: the BLE check is made iff a BLE target was supplied, whatever its
\* value (0 included), and the resolved device has alt-setting 1; when it is
\* made and the revisions differ the radio image is downloaded to alt-setting
\* 1 and a rebind is awaited; when they are equal, or no target was supplied,
\* nothing is downloaded to alt-setting 1.
C11_BleStage ==
    /\ (/\ pc \in {"AwaitBle", "CheckMcu", "Done"}
        /\ targets.ble_rev # None
        /\ FirstAlt(intf, 1) # 0)
       => \E i \in Idx : IsCheck(log[i], "ble")
    /\ targets.ble_rev = None =>
          \A i \in Idx : ~IsCheck(log[i], "ble") /\ ~IsDownloadOf(log[i], "ble_firmware")
    /\ \A i \in Idx : IsCheck(log[i], "ble") =>
          IF log[i].args[1].r[1] # log[i].args[1].r[2]
          THEN /\ HasNext(i)
               /\ IsDownloadOf(log[i + 1], "ble_firmware")
               /\ log[i + 1].alt = 1
               /\ pc = "CheckMcu" => \E r \in Idx : IsRebind(log[r], "ble")
          ELSE \A j \in Idx : ~(log[j].kind = "dfu-util"
                                /\ log[j].what = "download" /\ log[j].alt = 1)

CountOf(P(_)) == Cardinality({i \in Idx : P(log[i])})

IsBleDownload(e) == IsDownloadOf(e, "ble_firmware")

IsMcuDownload(e) == IsDownloadOf(e, "mcu_firmware")

\* C12: a failure of the mode switch, of a tool invocation, of a resolution
\* or of a rebind wait ends the run in Failed; after that nothing more is
\* invoked; and the switch, the bootloader flash, the BLE download and the
\* MCU download each happen at most once in a run.
C12_FailStop ==
    /\ [](reason # "" => pc = "Failed")
    /\ [](pc = "Failed" => reason \in EnvFailures \cup {"UnsupportedDevice"})
    /\ [](/\ CountOf(IsSwitchSuffix) <= 1
          /\ CountOf(IsSwitchDownload) <= 1
          /\ CountOf(IsBossaFlash) <= 1
          /\ CountOf(IsBleDownload) <= 1
          /\ CountOf(IsMcuDownload) <= 1)
    /\ [][pc = "Failed" => (pc' = "Failed" /\ log' = log /\ reason' = reason)]_vars

C12_Witness ==
    /\ pc = "Failed"
    /\ reason = "ToolInvocationFailed"
    /\ log[Len(log)].kind = "bossac" /\ log[Len(log)].what = "unlock"
    /\ CountOf(IsBossaFlash) = 0

\* C18: after a bootloader flash the script reads the vendor and product ids
\* from the device bound in the second wait, on the same physical path; its
\* locals, the next resolution and every later DFU invocation carry those
\* ids, and the resolved interfaces are those of the watched path.
C18_RefreshedIds ==
    \A r \in Idx : IsRebind(log[r], "dfu") =>
        /\ r > 1 /\ IsBossaFlash(log[r - 1])
        /\ vid = log[r].vid /\ pid = log[r].pid
        /\ \A j \in Idx : (j > r /\ log[j].kind = "dfu-util") =>
              log[j].vid = log[r].vid /\ log[j].pid = log[r].pid
        /\ pc \in {"CheckBle", "AwaitBle", "CheckMcu", "Done"} =>
              /\ HasNext(r)
              /\ log[r + 1].kind = "dfu-util" /\ log[r + 1].what = "list"
              /\ \A k \in 1..Len(intf) :
                    /\ intf[k].path = Path
                    /\ intf[k].vid = log[r].vid /\ intf[k].pid = log[r].pid

C18_Witness ==
    /\ pc = "Done"
    /\ dev0.pid = 1
    /\ \E r \in Idx : IsRebind(log[r], "dfu") /\ log[r].pid = 2
    /\ IsMcuDownload(log[Len(log)])
    /\ log[Len(log)].pid = 2

\* C20: a device the gate rejects (vendor id other than 0x308f, chip outside
\* sam4s, firmware_version below 1233) never gets a dfu-suffix or download
\* invocation; a rejection leaves no flashing invocation behind; and whenever
\* samba_bootloader returned, the check is followed by the dfu-suffix
\* invocation and then the switch download on alt-setting 0.
C20_GateBeforeEffects ==
    /\ (dev0.vid # 12431 \/ ~IsSubstring(Sam4s, dev0.chip) \/ dev0.ver < 1233) =>
          \A i \in Idx : ~IsSwitchSuffix(log[i]) /\ ~IsSwitchDownload(log[i])
    /\ reason = "UnsupportedDevice" => \A i \in Idx : ~IsFlashing(log[i])
    /\ (pc = "AwaitSamba" \/ \E r \in Idx : IsRebind(log[r], "samba")) =>
          \E i \in Idx :
              /\ IsCheck(log[i], "bootloader")
              /\ i + 2 <= Len(log)
              /\ IsSwitchSuffix(log[i + 1])
              /\ IsSwitchDownload(log[i + 2])
              /\ log[i + 2].alt = 0

C20_Witness ==
    /\ reason = "UnsupportedDevice"
    /\ dev0.vid # 12431
    /\ dev0.ver = 1400
    /\ IsSubstring(Sam4s, dev0.chip)
    /\ IsCheck(log[Len(log)], "bootloader")

\* C13: with a non-empty unlock_regions Bossa.cmd first issues an invocation
\* made of the port and the unlock option with the regions in the given
\* order, and only after it exited with status 0 issues the flash invocation
\* (two invocations in all); a non-zero exit of the unlock invocation ends the
\* call with the flash invocation never issued; with an empty unlock_regions
\* exactly one invocation, the flash invocation, is issued.
C13_UnlockFirst ==
    bResult.status # "idle" =>
        LET inv == bResult.invocations IN
        IF Len(bOpts.unlock_regions) > 0
        THEN /\ Len(inv) >= 1
             /\ inv[1].what = "unlock"
             /\ inv[1].args = <<Tok("--port", <<>>), Tok("/dev/ttyACM0", <<>>),
                                Tok("--unlock", bOpts.unlock_regions)>>
             /\ IF inv[1].ok
                THEN Len(inv) = 2 /\ inv[2].what = "flash"
                ELSE Len(inv) = 1 /\ bResult.status = "failed"
        ELSE Len(inv) = 1 /\ inv[1].what = "flash"

C13_Witness ==
    /\ bResult.status = "failed"
    /\ bOpts.unlock_regions = <<2, 0>>
    /\ Len(bResult.invocations) = 1
    /\ bResult.invocations[1].args[3] = Tok("--unlock", <<2, 0>>)
    /\ ~bResult.invocations[1].ok

\* The device nodes of the candidates Bossa.from_udev chooses among
CandidateNodes ==
    {sEnum[i].node : i \in {k \in 1..Len(sEnum) :
                               sPathArg = "<None>" \/ sEnum[k].sys_name = sPathArg}}

\* a is lexicographically not greater than b
LexLeq(a, b) ==
    \/ a = b
    \/ \E k \in 1..Len(b) :
          /\ k - 1 <= Len(a)
          /\ SubSeq(a, 1, k - 1) = SubSeq(b, 1, k - 1)
          /\ (Len(a) = k - 1 \/ a[k] < b[k])

\* C14: Bossa.from_udev returns the candidate whose device-node name is the
\* lexicographically smallest of the candidate set, whatever the enumeration
\* order, with no ambiguity error; with no candidate it raises the
\* not-found error.
C14_TieBreak ==
    sResult.status # "idle" =>
        IF CandidateNodes = {}
        THEN sResult.status = "FileNotFoundError"
        ELSE /\ sResult.status = "ok"
             /\ sResult.port \in CandidateNodes
             /\ \A c \in CandidateNodes : LexLeq(sResult.port, c)

C14_Witness ==
    /\ sResult.status = "ok"
    /\ Len(sEnum) = 2
    /\ sEnum[1].node = <<2>>
    /\ sEnum[2].node = <<1, 0>>
    /\ sPathArg = "<None>"
    /\ sResult.port = <<1, 0>>

\* C15: for every string of the grammar, parse_serial returns exactly the
\* fields the string was built from, and an absent revision or radio segment
\* comes back as None; the example '5335310050464D4B3530343232333033 -
\* sam4s4b:04E3' gives mcu_revision 0x04E3 = 1251 and no ble field.
C15_ParseInverse ==
    psResult.status # "idle" =>
        \A f \in SerialFields : psRaw = FormatSerial(f) =>
            /\ psResult.status = "ok"
            /\ psResult.serial = f.serial
            /\ psResult.chip = f.chip
            /\ psResult.mcu_revision = f.mcu_revision
            /\ psResult.ble_serial = f.ble_serial
            /\ psResult.ble_chip = f.ble_chip
            /\ psResult.ble_revision = f.ble_revision

C15_Witness ==
    /\ psResult.status = "ok"
    /\ psRaw = ExampleSerial \o <<" ", "-", " ", "s", "a", "m", "4", "s", "4", "b",
                                 ":", "0", "4", "E", "3">>
    /\ psResult.mcu_revision = 1251
    /\ psResult.ble_serial = NoneChars
    /\ psResult.ble_chip = NoneChars
    /\ psResult.ble_revision = None

\* Number of space-separated tokens of the raw serial
TokenCount == Cardinality({i \in 1..Len(psRaw) : psRaw[i] = " "}) + 1

\* The third token carries a ':' suffix
ThirdTokenHasRev ==
    LET spaces == {i \in 1..Len(psRaw) : psRaw[i] = " "}
        second == CHOOSE i \in spaces : Cardinality({j \in spaces : j < i}) = 1
        after == {i \in spaces : i > second}
        stop == IF after = {} THEN Len(psRaw) + 1
                ELSE CHOOSE i \in after : \A j \in after : i <= j
    IN \E k \in (second + 1)..(stop - 1) : psRaw[k] = ":"

\* C16: for a raw serial of at least 3 tokens parse_serial returns a record;
\* mcu_revision is present iff the third token has a ':hexrev' suffix, and
\* the three ble fields are present iff the serial has at least 6 tokens.
C16_Presence ==
    (psResult.status # "idle" /\ TokenCount >= 3) =>
        /\ psResult.status = "ok"
        /\ psResult.mcu_revision # None <=> ThirdTokenHasRev
        /\ psResult.ble_serial # NoneChars <=> TokenCount >= 6
        /\ psResult.ble_chip # NoneChars <=> TokenCount >= 6
        /\ psResult.ble_revision # None <=> TokenCount >= 6

\* The permutations of the positions 1..n
Perms(n) == {f \in [1..n -> 1..n] : \A i, j \in 1..n : i # j => f[i] # f[j]}

\* Every line of the block is empty or carries one of the twelve labels
OneLinePerLabel ==
    \A i \in 1..Len(piLines) :
        \/ piLines[i] = <<>>
        \/ \E k \in 1..Len(piLines[i]) :
              SubSeq(piLines[i], 1, k) \in
                 {<<"D", "e", "v", "i", "c", "e", ":">>,
                  <<"V", "e", "r", "s", "i", "o", "n", ":">>,
                  <<"A", "d", "d", "r", "e", "s", "s", ":">>,
                  <<"P", "a", "g", "e", "s", ":">>,
                  <<"P", "a", "g", "e", " ", "S", "i", "z", "e", ":">>,
                  <<"T", "o", "t", "a", "l", " ", "S", "i", "z", "e", ":">>,
                  <<"P", "l", "a", "n", "e", "s", ":">>,
                  <<"L", "o", "c", "k", " ", "R", "e", "g", "i", "o", "n", "s", ":">>,
                  <<"L", "o", "c", "k", "e", "d", ":">>,
                  <<"S", "e", "c", "u", "r", "i", "t", "y", ":">>,
                  <<"B", "o", "o", "t", " ", "F", "l", "a", "s", "h", ":">>,
                  <<"U", "n", "i", "q", "u", "e", " ", "I", "d", ":">>}

\* C17: a valid info block (one line per label) parses to a record; every
\* permutation of its lines parses to the same record; and parsing the block
\* again into that record leaves it unchanged.
C17_OrderIndependent ==
    (piResult.status # "idle" /\ OneLinePerLabel) =>
        /\ piResult.status = "ok"
        /\ \A f \in Perms(Len(piLines)) :
              BossaInfoSet(FreshInfo, [i \in 1..Len(piLines) |-> piLines[f[i]]])
                  = piResult
        /\ piAgain = piResult

C17_Witness ==
    /\ piResult.status = "ok"
    /\ Len(piLines) = 2
    /\ piLines[1] = <<"L", "o", "c", "k", "e", "d", ":", " ", "n", "o", "n", "e">>
    /\ piLines[2] = <<"L", "o", "c", "k", " ", "R", "e", "g", "i", "o", "n", "s",
                      ":", " ", "8">>
    /\ piResult.locked = <<"n", "o", "n", "e">>
    /\ piResult.lock_region = 8
    /\ piAgain = piResult

\* Total Size values and the number of bytes each stands for
SizeExpect ==
    {[text |-> <<"0", "K", "B">>, bytes |-> 0],
     [text |-> <<"6", "4", "K", "B">>, bytes |-> 65536],
     [text |-> <<"1", "0", "2", "4", "K", "B">>, bytes |-> 1048576],
     [text |-> <<"1", "M", "B">>, bytes |-> 1048576],
     [text |-> <<"2", "M", "B">>, bytes |-> 2097152]}

\* C19: a Total Size value nKB is parsed as n * 1024 bytes and nMB as
\* n * 1024 * 1024 bytes, in every block of labelled lines; 'Total Size:
\* 1024KB' gives 1024 * 1024.
C19_SizeScaling ==
    (piResult.status # "idle" /\ OneLinePerLabel) =>
        \A i \in 1..Len(piLines) : \A e \in SizeExpect :
            piLines[i] = <<"T", "o", "t", "a", "l", " ", "S", "i", "z", "e",
                           ":", " ">> \o e.text
            => piResult.status = "ok" /\ piResult.total_size = e.bytes

C19_Witness ==
    /\ piResult.status = "ok"
    /\ \E i \in 1..Len(piLines) :
          piLines[i] = <<"T", "o", "t", "a", "l", " ", "S", "i", "z", "e",
                         ":", " ", "1", "0", "2", "4", "K", "B">>
    /\ piResult.total_size = 1024 * 1024

\* The flash invocations of the Bossa.cmd run
FlashInvocations ==
    {i \in 1..Len(bResult.invocations) : bResult.invocations[i].what = "flash"}

\* The flash invocation's argument list has the option
FlashHas(i, opt) ==
    \E k \in 1..Len(bResult.invocations[i].args) :
        bResult.invocations[i].args[k].o = opt

\* C23: the flash invocation carries --erase iff erase is True, or erase is
\* None and both a file and write are given; with erase=False it never does.
C23_EraseControl ==
    \A i \in FlashInvocations :
        FlashHas(i, "--erase") <=>
            \/ bOpts.erase = "True"
            \/ bOpts.erase = "None" /\ bOpts.file # "<None>" /\ bOpts.write

\* Place of an argument in the order file, erase, write, boot, lock, verify,
\* reset (0 for what precedes the file)
ArgRank(t) ==
    CASE t.o = "fw.bin" -> 1
      [] t.o = "--erase" -> 2
      [] t.o = "--write" -> 3
      [] t.o \in {"--boot=1", "--boot=0"} -> 4
      [] t.o = "--lock" -> 5
      [] t.o = "--verify" -> 6
      [] t.o = "--reset" -> 7
      [] OTHER -> 0

\* C24: the flash invocation has --write iff write, exactly one boot option
\* (--boot=1 iff boot_flash, otherwise --boot=0), --lock with the regions in
\* the given order iff lock_regions is non-empty, --verify iff verify and a
\* file is given, --reset iff reset, each at most once and in the order file,
\* erase, write, boot, lock, verify, reset.
C24_FlagComposition ==
    \A i \in FlashInvocations :
        LET a == bResult.invocations[i].args IN
        /\ FlashHas(i, "--write") <=> bOpts.write
        /\ Cardinality({k \in 1..Len(a) : a[k].o \in {"--boot=1", "--boot=0"}}) = 1
        /\ FlashHas(i, "--boot=1") <=> bOpts.boot_flash
        /\ FlashHas(i, "--lock") <=> Len(bOpts.lock_regions) > 0
        /\ \A k \in 1..Len(a) : a[k].o = "--lock" => a[k].r = bOpts.lock_regions
        /\ FlashHas(i, "--verify") <=> (bOpts.verify /\ bOpts.file # "<None>")
        /\ FlashHas(i, "--reset") <=> bOpts.reset
        /\ FlashHas(i, "fw.bin") <=> bOpts.file = "fw.bin"
        /\ \A j, k \in 1..Len(a) :
              j < k => /\ ArgRank(a[j]) <= ArgRank(a[k])
                       /\ ArgRank(a[k]) > 0 => ArgRank(a[j]) < ArgRank(a[k])

C24_Witness ==
    /\ bResult.status = "ok"
    /\ bOpts = [file |-> "fw.bin", erase |-> "None", write |-> TRUE,
                boot_flash |-> FALSE, unlock_regions |-> <<>>,
                lock_regions |-> <<0, 1, 2>>, verify |-> TRUE, reset |-> TRUE]
    /\ bResult.invocations[1].args =
          <<Tok("--port", <<>>), Tok("/dev/ttyACM0", <<>>), Tok("fw.bin", <<>>),
            Tok("--erase", <<>>), Tok("--write", <<>>), Tok("--boot=0", <<>>),
            Tok("--lock", <<0, 1, 2>>), Tok("--verify", <<>>), Tok("--reset", <<>>)>>

\* C30: the flash invocation never carries the unlock option, so unlocking
\* is requested exactly once per Bossa.cmd call.
C30_NoUnlockInFlash ==
    /\ \A i \in FlashInvocations : ~FlashHas(i, "--unlock")
    /\ Cardinality({i \in 1..Len(bResult.invocations) :
                       \E k \in 1..Len(bResult.invocations[i].args) :
                           bResult.invocations[i].args[k].o = "--unlock"}) <= 1

\* The block has exactly one line with another label, here
UnknownAt(k) ==
    /\ k \in 1..Len(piLines)
    /\ piLines[k] \in UnknownLines
    /\ \A i \in 1..Len(piLines) : i # k => piLines[i] \notin UnknownLines

\* The block without its k-th line
WithoutLine(k) == SubSeq(piLines, 1, k - 1) \o SubSeq(piLines, k + 1, Len(piLines))

\* C25: a non-empty line whose label is none of the twelve, inserted at any
\* position of a valid block, never makes parsing fail and leaves the record
\* equal to that of the block without it, also when its text contains one
\* of the label words.
C25_ForwardCompatible ==
    piResult.status # "idle" =>
        \A k \in 1..Len(piLines) : UnknownAt(k) =>
            /\ piResult.status = "ok"
            /\ piResult = BossaInfoSet(FreshInfo, WithoutLine(k))

\* C26: on a raw serial of fewer than 3 space-separated tokens parse_serial
\* raises its malformed-serial error (the IndexError of raw_serial_split[2])
\* and no other, and returns no record.
C26_Malformed ==
    (psResult.status # "idle" /\ TokenCount < 3) =>
        /\ psResult.status = "IndexError"
        /\ DOMAIN psResult = {"status"}

C26_Witness ==
    /\ psResult.status = "IndexError"
    /\ psRaw = <<"A", "1", " ", "-">>

\* The value of two hex characters of the serial
HexPair(x, k) == 16 * HexDigitValue(x[k]) + HexDigitValue(x[k + 1])

\* Each full 8-digit group of the serial is in the blob as 4 bytes, least
\* significant byte first, the groups in the order of the serial
BlobLittleEndian ==
    \A g \in 0..((Len(swIn.serial) \div 8) - 1) :
        /\ Len(swResult.blob) >= 4 * g + 4
        /\ \A k \in 1..4 :
              swResult.blob[4 * g + k] = HexPair(swIn.serial, 8 * g + 9 - 2 * k)

\* The text after an option of invocation n
ArgText(n, opt) ==
    LET a == swResult.invocations[n].args
    IN a[CHOOSE k \in 1..Len(a) : a[k].o = opt].r

\* The suffix carries the device's own ids (dfu-suffix reads hex)
SuffixOwnIds ==
    Len(swResult.invocations) >= 1 =>
        /\ swResult.invocations[1].tool = "dfu-suffix"
        /\ HexValue(ArgText(1, "--vid")) = swIn.vid
        /\ HexValue(ArgText(1, "--pid")) = swIn.pid

\* The download goes to alt-setting 0 and the device's own physical path
DownloadAltPath ==
    Len(swResult.invocations) >= 2 =>
        /\ swResult.invocations[2].tool = "dfu-util"
        /\ ArgText(2, "--alt") = <<"0">>
        /\ ArgText(2, "--path") = swIn.path

\* The download names the device's own vendor:product (dfu-util reads the
\* two numbers of --device as hexadecimal)
DownloadOwnIds ==
    Len(swResult.invocations) >= 2 =>
        LET parts == Split(ArgText(2, "--device"), ":")
        IN /\ Len(parts) = 2
           /\ HexValue(parts[1]) = swIn.vid
           /\ HexValue(parts[2]) = swIn.pid

\* C21: on a device that passes the gate the switch writes the serial as
\* 32-bit words, each 8-hex-digit group as 4 bytes least significant byte
\* first and in serial order, then attaches the suffix with the device's own
\* ids, and only then downloads the blob, to alt-setting 0, the device's own
\* vendor:product and its physical path.
C21_SwitchSequence ==
    swResult.status \in {"ok", "CalledProcessError"} =>
        /\ BlobLittleEndian
        /\ SuffixOwnIds
        /\ DownloadAltPath
        /\ DownloadOwnIds

\* C22: every interface a successful Dfu(...) retains satisfies each filter
\* that was supplied: physical path, vendor id, product id (also when only
\* one of vendor id and product id is supplied), serial and ble_serial.
C22_ResolverSound ==
    (lResult.status = "ok" /\ lResult.op = "Dfu") =>
        \A k \in 1..Len(lResult.interfaces) :
            LET i == lResult.interfaces[k] IN
            /\ lArgs.path # "<None>" => i.path = lArgs.path
            /\ lArgs.vid # -1 => i.vid = lArgs.vid
            /\ lArgs.pid # -1 => i.pid = lArgs.pid
            /\ lArgs.serial # "<None>" => i.serial.serial = lArgs.serial
            /\ lArgs.ble_serial # "<None>" => i.serial.ble_serial = lArgs.ble_serial

\* The attached devices that satisfy the supplied filters of from_udev
UdevMatching ==
    {k \in 1..Len(lWorld) :
        /\ lArgs.vid # -1 => lWorld[k].vid = lArgs.vid
        /\ lArgs.pid # -1 => lWorld[k].pid = lArgs.pid
        /\ lArgs.serial # "<None>" => lWorld[k].serial.serial = lArgs.serial
        /\ lArgs.ble_serial # "<None>" =>
              lWorld[k].serial.ble_serial = lArgs.ble_serial}

\* C27: Dfu.from_udev raises the not-found error with no matching device,
\* the ambiguity error with more than one, and with exactly one returns a
\* resolved Dfu for that device, for every combination of the filters.
C27_FromUdev ==
    (lResult.status # "idle" /\ lResult.op = "from_udev") =>
        /\ Cardinality(UdevMatching) = 0 => lResult.status = "NoDeviceFound"
        /\ Cardinality(UdevMatching) > 1 => lResult.status = "AmbiguousDevice"
        /\ Cardinality(UdevMatching) = 1 =>
              /\ lResult.status = "ok"
              /\ Len(lResult.interfaces) >= 1
              /\ \A k \in 1..Len(lResult.interfaces) :
                    \E d \in UdevMatching :
                        lResult.interfaces[k].path = lWorld[d].path

\* C28: every revision comparison and every DFU download or detach of the
\* script uses a resolution (dfu-util --list) made after the most recent
\* rebind of the port; in particular the MCU check after a BLE flash and its
\* rebind follows a resolution made after that rebind.
C28_FreshResolution ==
    \A j \in Idx :
        (\/ log[j].kind = "check"
         \/ (log[j].kind = "dfu-util" /\ log[j].what \in {"download", "detach"}))
        => \A r \in 1..(j - 1) :
              log[r].kind = "rebind" =>
                  \E k \in (r + 1)..(j - 1) :
                      log[k].kind = "dfu-util" /\ log[k].what = "list"

\* C29: a bind event the device emits after the switch or flash command was
\* issued is observed by the wait that follows; so a rebind timeout is
\* reported only for a device that has not re-enumerated.
C29_NoLostRebind ==
    [][(reason = "" /\ reason' = "ReenumerationTimeout")
          => dev.mode \in {"to_samba", "to_dfu", "gone"}]_vars

\* The tool invocations of the run, in order
ToolIdx == {i \in Idx : log[i].kind \in {"dfu-util", "dfu-suffix", "bossac"}}

\* C31: a run that reaches Done has as its last tool invocation an MCU
\* download to alt-setting 0 or a detach on alt-setting 0, whatever
\* alt-settings the resolution returned, and has made the bootloader check
\* and the MCU check.
C31_DoneAfterMcuStage ==
    pc = "Done" =>
        /\ ToolIdx # {}
        /\ LET last == CHOOSE i \in ToolIdx : \A j \in ToolIdx : j <= i
           IN /\ log[last].alt = 0
              /\ \/ IsDownloadOf(log[last], "mcu_firmware")
                 \/ IsDetach(log[last])
        /\ \E i \in Idx : IsCheck(log[i], "bootloader")
        /\ \E i \in Idx : IsCheck(log[i], "mcu")

====
